---- MODULE Spec2Model ----
(***************************************************************************)
(* Period-bounded delta aggregation engine of VideoAnalyticsBot            *)
(* (src/src/managers/date_ai_manager.py): period resolver, availability    *)
(* classifier, the two aggregation queries, rollup, result cache and the   *)
(* facade operations of DateAIManager.                                     *)
(***************************************************************************)
EXTENDS Integers, Sequences, FiniteSets, TLC

(***************************************************************************)
(* Calendar.  A datetime is an integer instant: day ordinal * TodPerDay +  *)
(* time of day.  The time of day is sampled: tick 0 is 00:00:00, tick      *)
(* TodPerDay - 2 is 23:59:59, tick TodPerDay - 1 is a sub-second instant   *)
(* after 23:59:59, the ticks between are times during the day.             *)
(***************************************************************************)
TodPerDay == 4

TARGET_YEAR == 2023

FirstYear == TARGET_YEAR - 1

LastYear == TARGET_YEAR + 1

Years == FirstYear..LastYear

LastSecond == TodPerDay - 2

IsLeap(y) == (y % 4 = 0 /\ y % 100 # 0) \/ y % 400 = 0

DaysInMonth(y, m) == IF m = 2 THEN (IF IsLeap(y) THEN 29 ELSE 28) ELSE IF m \in {4, 6, 9, 11} THEN 30 ELSE 31

DaysInYear(y) == IF IsLeap(y) THEN 366 ELSE 365

RECURSIVE YearStart(_)
YearStart(y) == IF y <= FirstYear THEN 0 ELSE YearStart(y - 1) + DaysInYear(y - 1)

RECURSIVE MonthStart(_, _)
MonthStart(y, m) == IF m = 1 THEN YearStart(y) ELSE MonthStart(y, m - 1) + DaysInMonth(y, m - 1)

(* Weekday of January 1st of year y, Monday = 0 (2000-01-01 is a Saturday) *)
RECURSIVE Jan1Weekday(_)
Jan1Weekday(y) == IF y <= 2000 THEN 5 ELSE (Jan1Weekday(y - 1) + DaysInYear(y - 1)) % 7

FirstWeekday == Jan1Weekday(FirstYear)

MaxOrdinal == YearStart(LastYear) + DaysInYear(LastYear) - 1

(* datetime(y, m, d) at time-of-day tick t *)
datetime(y, m, d, t) == (MonthStart(y, m) + d - 1) * TodPerDay + t

DateTable == [o \in 0..MaxOrdinal |-> LET y == CHOOSE yy \in Years : YearStart(yy) <= o /\ o < YearStart(yy) + DaysInYear(yy) m == CHOOSE mm \in 1..12 : MonthStart(y, mm) <= o /\ o < MonthStart(y, mm) + DaysInMonth(y, mm) IN [year |-> y, month |-> m, day |-> o - MonthStart(y, m) + 1]]

Ordinal(i) == i \div TodPerDay

Tod(i) == i % TodPerDay

year(i) == DateTable[Ordinal(i)].year

month(i) == DateTable[Ordinal(i)].month

day(i) == DateTable[Ordinal(i)].day

(* datetime.weekday(): Monday is 0 *)
weekday(i) == (FirstWeekday + Ordinal(i)) % 7

(* timedelta(days=k) *)
timedelta(k) == k * TodPerDay

(* date.replace(hour=0, minute=0, second=0, microsecond=0) *)
replace_midnight(i) == i - Tod(i)

(* Optional values: None is the empty tuple, a present value a 1-tuple *)
None == <<>>

Some(x) == <<x>>

(***************************************************************************)
(* Enumerations                                                            *)
(***************************************************************************)
PeriodType == {"day", "week", "month", "custom", "all_time"}

DataType == {"video_creation", "stats_only", "mixed", "none"}

(***************************************************************************)
(* Period resolver                                                         *)
(***************************************************************************)
Bounds(s, e) == [kind |-> "bounds", start |-> s, end |-> e]

NoBounds == [kind |-> "none"]

ValueError == [kind |-> "ValueError"]

(* _calculate_period_bounds: start_date and end_date are Optional *)
_calculate_period_bounds(start_date, period_type, end_date) ==
  IF period_type = "day" /\ start_date # None
  THEN LET start == replace_midnight(start_date[1]) IN Bounds(start, start + timedelta(1))
  ELSE IF period_type = "week" /\ start_date # None
  THEN LET monday == start_date[1] - timedelta(weekday(start_date[1]))
           start == replace_midnight(monday)
       IN Bounds(start, start + timedelta(7))
  ELSE IF period_type = "month" /\ start_date # None
  THEN LET d == start_date[1]
           start == datetime(year(d), month(d), 1, 0)
           end == IF month(d) = 12 THEN datetime(year(d) + 1, 1, 1, Tod(d)) ELSE datetime(year(d), month(d) + 1, 1, Tod(d))
       IN Bounds(start, end)
  ELSE IF period_type = "custom" /\ start_date # None /\ end_date # None
  THEN IF end_date[1] < start_date[1]
       THEN ValueError
       ELSE Bounds(replace_midnight(start_date[1]), replace_midnight(end_date[1]) + timedelta(1))
  ELSE NoBounds

_calculate_day_bounds(date) == LET start == replace_midnight(date) IN Bounds(start, start + timedelta(1))

_calculate_week_bounds(date) ==
  LET monday == date - timedelta(weekday(date))
      start == replace_midnight(monday)
  IN Bounds(start, start + timedelta(7))

_calculate_month_bounds(y, m) ==
  LET start == datetime(y, m, 1, 0)
      end == IF m = 12 THEN datetime(y + 1, 1, 1, 0) ELSE datetime(y, m + 1, 1, 0)
  IN Bounds(start, end)

(* DataPeriod(...) as built by initialize() for a target year *)
DataPeriod(ty) == [video_creation_start |-> datetime(ty, 8, 1, 0), video_creation_end |-> datetime(ty, 10, 31, LastSecond), stats_start |-> datetime(ty, 11, 1, 0), stats_end |-> datetime(ty, 12, 31, LastSecond), target_year |-> ty]

(***************************************************************************)
(* State                                                                   *)
(***************************************************************************)
VARIABLES
  videos,           \* table videos: row id -> [creator_human_number, video_created_at]
  video_snapshots,  \* table video_snapshots: set of [video_id, created_at, views_count, likes_count]
  db_up,            \* whether the storage backend answers (create_pool, acquire, fetch succeed)
  db_pool,          \* self.db_pool: "none", "open" or "closed"
  data_period,      \* self.data_period: None or Some(DataPeriod)
  _initialized,     \* self._initialized
  _stats_cache,     \* self._stats_cache, in dict insertion order: <<[key, value, ts], ...>>
  now,              \* time.time()
  call,             \* the facade call made last, with its arguments
  ret,              \* what that call returned or raised
  queries,          \* storage queries that call issued
  bounds,           \* the period that call resolved (start, end locals)
  rows,             \* the rows that call fetched (videos local)
  fsm_state,        \* the dialogue's FSMContext state: "none" or a StatsStates name
  fsm_data,         \* the dialogue's FSMContext data: data.get('start_date'), None or Some(datetime)
  update,           \* the message handled last: its handler, its text and the answers sent
  tasks,            \* the coroutines in flight: task id -> its frame (where it is suspended, its locals)
  _init_lock,       \* self._init_lock: the queue of tasks at the lock, its holder first
  giga_client,      \* the AsyncGigaChatClient: initialized, last_request_time, request_lock
  app               \* the TelegramBotApp: is_initialized, is_polling, and what it has released

vars == <<videos, video_snapshots, db_up, db_pool, data_period, _initialized, _stats_cache, now, call, ret, queries, bounds, rows, fsm_state, fsm_data, update, tasks, _init_lock, giga_client, app>>

(* MAX_CACHE_SIZE = 100 in the source; the model keeps a small cache so that eviction happens *)
MAX_CACHE_SIZE == 2

CACHE_TTL == 300

(* valid creator_id range checked by get_creator_stats and in the SQL *)
MIN_CREATOR_ID == 1

MAX_CREATOR_ID == 19

(***************************************************************************)
(* Helpers                                                                 *)
(***************************************************************************)
MaxOf(S) == CHOOSE x \in S : \A y \in S : y <= x

(* COALESCE(MAX(col) FILTER (...), 0) over the filtered values *)
CoalesceMax(S) == IF S = {} THEN 0 ELSE MaxOf(S)

GREATEST(a, b) == IF a >= b THEN a ELSE b

RECURSIVE SumSeq(_)
SumSeq(s) == IF s = <<>> THEN 0 ELSE Head(s) + SumSeq(Tail(s))

(* all enumerations of a finite set as a sequence without repetition *)
RECURSIVE Orderings(_)
Orderings(S) == IF S = {} THEN {<<>>} ELSE UNION {{<<x>> \o t : t \in Orderings(S \ {x})} : x \in S}

(* round(likes / views * 100, 2), in hundredths, ties to even *)
round2(likes, views) ==
  LET n == likes * 10000
      q == n \div views
      r == n % views
  IN IF 2 * r < views THEN q ELSE IF 2 * r > views THEN q + 1 ELSE IF q % 2 = 0 THEN q ELSE q + 1

(***************************************************************************)
(* Availability classifier                                                 *)
(***************************************************************************)
(* _get_period_type with strict comparisons in the first test *)
_get_period_type_strict(period, start, end) ==
  IF end < period.video_creation_start \/ start > period.stats_end THEN "none"
  ELSE IF start >= period.video_creation_start /\ end <= period.video_creation_end THEN "video_creation"
  ELSE IF start >= period.stats_start /\ end <= period.stats_end THEN "stats_only"
  ELSE "mixed"

(* the classifier with each window taken to end with its last day *)
_get_period_type_whole_days(period, start, end) ==
  IF end <= period.video_creation_start \/ start >= period.stats_end THEN "none"
  ELSE IF start >= period.video_creation_start /\ end <= replace_midnight(period.video_creation_end) + timedelta(1) THEN "video_creation"
  ELSE IF start >= period.stats_start /\ end <= replace_midnight(period.stats_end) + timedelta(1) THEN "stats_only"
  ELSE "mixed"

_get_period_type(period, start, end) ==
  IF end <= period.video_creation_start \/ start >= period.stats_end THEN "none"
  ELSE IF start >= period.video_creation_start /\ end <= period.video_creation_end THEN "video_creation"
  ELSE IF start >= period.stats_start /\ end <= period.stats_end THEN "stats_only"
  ELSE "mixed"

(***************************************************************************)
(* The aggregation queries (SQL of _fetch_videos_in_period and             *)
(* _fetch_creator_videos_in_period)                                        *)
(***************************************************************************)
(* video_snapshots rows of one video inside the counter window (WHERE ... GROUP BY s.video_id) *)
WindowSnapshots(snaps, period, id) == {s \in snaps : s.video_id = id /\ s.created_at >= period.stats_start /\ s.created_at <= period.stats_end}

(* views_gained from the latest snapshot before each bound, not the MAX, and without GREATEST *)
views_gained_latest(S, start, end) ==
  LET last(T) == IF T = {} THEN 0 ELSE (CHOOSE s \in T : \A t \in T : t.created_at <= s.created_at).views_count
  IN last({x \in S : x.created_at < end}) - last({x \in S : x.created_at < start})

(* views_gained with the baseline taken over every window snapshot, the FILTER (WHERE created_at < start) left out *)
views_gained_start_unfiltered(S, start, end) == GREATEST(CoalesceMax({s.views_count : s \in {x \in S : x.created_at < end}}) - CoalesceMax({s.views_count : s \in S}), 0)

(* GREATEST(COALESCE(MAX(col) FILTER (created_at < $2), 0) - COALESCE(MAX(col) FILTER (created_at < $1), 0), 0) *)
views_gained(S, start, end) == GREATEST(CoalesceMax({s.views_count : s \in {x \in S : x.created_at < end}}) - CoalesceMax({s.views_count : s \in {x \in S : x.created_at < start}}), 0)

(* likes_gained from the latest snapshot before each bound, not the MAX, and without GREATEST *)
likes_gained_latest(S, start, end) ==
  LET last(T) == IF T = {} THEN 0 ELSE (CHOOSE s \in T : \A t \in T : t.created_at <= s.created_at).likes_count
  IN last({x \in S : x.created_at < end}) - last({x \in S : x.created_at < start})

likes_gained(S, start, end) == GREATEST(CoalesceMax({s.likes_count : s \in {x \in S : x.created_at < end}}) - CoalesceMax({s.likes_count : s \in {x \in S : x.created_at < start}}), 0)

(* CTE stats_delta without its HAVING clause: every video with a snapshot in the counter window *)
stats_delta_no_having(snaps, period, ids, start, end) == {id \in ids : WindowSnapshots(snaps, period, id) # {}}

(* CTE stats_delta: the video ids that pass GROUP BY ... HAVING *)
stats_delta(snaps, period, ids, start, end) == {id \in ids : LET S == WindowSnapshots(snaps, period, id) IN S # {} /\ (views_gained(S, start, end) > 0 \/ likes_gained(S, start, end) > 0)}

(* CASE WHEN $1 <= video_created_at AND video_created_at < $2 THEN 1 ELSE 0 END *)
is_new(v, start, end) == IF start <= v.video_created_at /\ v.video_created_at < end THEN 1 ELSE 0

(* the final SELECT without its WHERE clause: every row of video_creation *)
JoinRows_unfiltered(vids, snaps, period, vc, start, end) ==
  {[id |-> id, human_id |-> vids[id].creator_human_number, is_new |-> is_new(vids[id], start, end), views_gained |-> views_gained(WindowSnapshots(snaps, period, id), start, end), likes_gained |-> likes_gained(WindowSnapshots(snaps, period, id), start, end)] : id \in vc}

(* the final SELECT with WHERE sd.video_id IS NOT NULL only *)
JoinRows_gained_only(vids, snaps, period, vc, start, end) ==
  LET sd == stats_delta(snaps, period, vc, start, end)
  IN {[id |-> id, human_id |-> vids[id].creator_human_number, is_new |-> is_new(vids[id], start, end), views_gained |-> views_gained(WindowSnapshots(snaps, period, id), start, end), likes_gained |-> likes_gained(WindowSnapshots(snaps, period, id), start, end)] : id \in sd}

(* final SELECT ... FROM video_creation vc LEFT JOIN stats_delta sd ... WHERE; *)
(* the field id is kept with each row to name the entity, the SELECT list omits it *)
JoinRows(vids, snaps, period, vc, start, end) ==
  LET sd == stats_delta(snaps, period, vc, start, end)
  IN {[id |-> id, human_id |-> vids[id].creator_human_number, is_new |-> is_new(vids[id], start, end), views_gained |-> IF id \in sd THEN views_gained(WindowSnapshots(snaps, period, id), start, end) ELSE 0, likes_gained |-> IF id \in sd THEN likes_gained(WindowSnapshots(snaps, period, id), start, end) ELSE 0] : id \in {i \in vc : is_new(vids[i], start, end) = 1 \/ i \in sd}}

(* the video_creation CTE of the period query without the creation-window condition *)
video_creation_any_date(vids, period) == {id \in 1..Len(vids) : vids[id].creator_human_number >= MIN_CREATOR_ID /\ vids[id].creator_human_number <= MAX_CREATOR_ID}

(* CTE video_creation of _fetch_videos_in_period *)
video_creation(vids, period) == {id \in 1..Len(vids) : vids[id].video_created_at >= period.video_creation_start /\ vids[id].video_created_at <= period.video_creation_end /\ vids[id].creator_human_number >= MIN_CREATOR_ID /\ vids[id].creator_human_number <= MAX_CREATOR_ID}

_fetch_videos_in_period(vids, snaps, period, start, end) == JoinRows(vids, snaps, period, video_creation(vids, period), start, end)

(* the video_creation CTE of the creator query without the creation-window condition *)
creator_video_creation_any_date(vids, period, creator_id) == {id \in 1..Len(vids) : vids[id].creator_human_number = creator_id}

(* CTE video_creation of _fetch_creator_videos_in_period *)
creator_video_creation(vids, period, creator_id) == {id \in 1..Len(vids) : vids[id].creator_human_number = creator_id /\ vids[id].video_created_at >= period.video_creation_start /\ vids[id].video_created_at <= period.video_creation_end}

_fetch_creator_videos_in_period(vids, snaps, period, creator_id, start, end) == JoinRows(vids, snaps, period, creator_video_creation(vids, period, creator_id), start, end)

(***************************************************************************)
(* Rollup                                                                  *)
(***************************************************************************)
(* creator_stats keys in dict insertion order: human_id by first appearance in videos *)
RECURSIVE CreatorOrder(_, _)
CreatorOrder(vs, seen) == IF vs = <<>> THEN <<>> ELSE IF Head(vs).human_id \in seen THEN CreatorOrder(Tail(vs), seen) ELSE <<Head(vs).human_id>> \o CreatorOrder(Tail(vs), seen \cup {Head(vs).human_id})

(* creator_stats[h] after the loop over videos *)
CreatorStat(vs, h) ==
  LET mine == SelectSeq(vs, LAMBDA v : v.human_id = h)
  IN [human_id |-> h, new_videos |-> Len(SelectSeq(mine, LAMBDA v : v.is_new # 0)), views_gained |-> SumSeq([i \in 1..Len(mine) |-> mine[i].views_gained]), likes_gained |-> SumSeq([i \in 1..Len(mine) |-> mine[i].likes_gained])]

(* sorted(...)[::-1] over an ascending sort: descending, but ties in reverse arrival order *)
RECURSIVE sorted_by_views_desc_ties_reversed(_)
sorted_by_views_desc_ties_reversed(s) ==
  IF s = <<>> THEN <<>>
  ELSE LET x == s[Len(s)]
           t == sorted_by_views_desc_ties_reversed(SubSeq(s, 1, Len(s) - 1))
           k == Cardinality({i \in 1..Len(t) : t[i].views_gained > x.views_gained})
       IN SubSeq(t, 1, k) \o <<x>> \o SubSeq(t, k + 1, Len(t))

(* sorted(..., key=lambda x: x['views_gained'], reverse=True): stable, descending *)
RECURSIVE sorted_by_views_desc(_)
sorted_by_views_desc(s) ==
  IF s = <<>> THEN <<>>
  ELSE LET x == s[Len(s)]
           t == sorted_by_views_desc(SubSeq(s, 1, Len(s) - 1))
           k == Cardinality({i \in 1..Len(t) : t[i].views_gained >= x.views_gained})
       IN SubSeq(t, 1, k) \o <<x>> \o SubSeq(t, k + 1, Len(t))

Take(s, n) == SubSeq(s, 1, IF Len(s) < n THEN Len(s) ELSE n)

filters_applied(period) == [year |-> period.target_year]

(* _aggregate_video_stats counting the active creators after the [:5] cut *)
_aggregate_video_stats_counts_top(period, vs, start, end, period_type, data_type) ==
  LET order == CreatorOrder(vs, {})
      creator_stats == [i \in 1..Len(order) |-> CreatorStat(vs, order[i])]
      total_new_videos == Len(SelectSeq(vs, LAMBDA v : v.is_new # 0))
      total_views_gained == SumSeq([i \in 1..Len(vs) |-> vs[i].views_gained])
      total_likes_gained == SumSeq([i \in 1..Len(vs) |-> vs[i].likes_gained])
      engagement_rate == IF total_views_gained > 0 THEN round2(total_likes_gained, total_views_gained) ELSE 0
      top_creators == Take(sorted_by_views_desc(creator_stats), 5)
  IN [period_type |-> period_type, data_type |-> data_type, start_date |-> start, end_date |-> end, has_data |-> TRUE, total_videos_analyzed |-> Len(vs), new_videos |-> total_new_videos, active_creators |-> Len(top_creators), views_gained |-> total_views_gained, likes_gained |-> total_likes_gained, engagement_rate |-> engagement_rate, top_creators |-> top_creators, filters_applied |-> filters_applied(period)]

_aggregate_video_stats(period, vs, start, end, period_type, data_type) ==
  LET order == CreatorOrder(vs, {})
      creator_stats == [i \in 1..Len(order) |-> CreatorStat(vs, order[i])]
      total_new_videos == Len(SelectSeq(vs, LAMBDA v : v.is_new # 0))
      total_views_gained == SumSeq([i \in 1..Len(vs) |-> vs[i].views_gained])
      total_likes_gained == SumSeq([i \in 1..Len(vs) |-> vs[i].likes_gained])
      engagement_rate == IF total_views_gained > 0 THEN round2(total_likes_gained, total_views_gained) ELSE 0
  IN [period_type |-> period_type, data_type |-> data_type, start_date |-> start, end_date |-> end, has_data |-> TRUE, total_videos_analyzed |-> Len(vs), new_videos |-> total_new_videos, active_creators |-> Len(creator_stats), views_gained |-> total_views_gained, likes_gained |-> total_likes_gained, engagement_rate |-> engagement_rate, top_creators |-> Take(sorted_by_views_desc(creator_stats), 5), filters_applied |-> filters_applied(period)]

_aggregate_creator_stats(period, creator_id, vs, start, end, period_type) ==
  LET total_new == SumSeq([i \in 1..Len(vs) |-> vs[i].is_new])
      total_views == SumSeq([i \in 1..Len(vs) |-> vs[i].views_gained])
      total_likes == SumSeq([i \in 1..Len(vs) |-> vs[i].likes_gained])
      engagement == IF total_views > 0 THEN round2(total_likes, total_views) ELSE 0
  IN [human_id |-> creator_id, period_type |-> period_type, start_date |-> start, end_date |-> end, has_data |-> TRUE, total_videos |-> Len(vs), new_videos |-> total_new, views_gained |-> total_views, likes_gained |-> total_likes, engagement_rate |-> engagement, filters_applied |-> filters_applied(period)]

(* _create_no_data_response without the data_type entry *)
_create_no_data_response_untyped(period, start, end, period_type, data_type) == [period_type |-> period_type, start_date |-> start, end_date |-> end, has_data |-> FALSE, message |-> "no data for the period", filters_applied |-> filters_applied(period)]

_create_no_data_response(period, start, end, period_type, data_type) == [period_type |-> period_type, data_type |-> data_type, start_date |-> start, end_date |-> end, has_data |-> FALSE, message |-> "no data for the period", filters_applied |-> filters_applied(period)]

_create_out_of_range_response(period, start, end) == [period_type |-> "out_of_range", start_date |-> start, end_date |-> end, has_data |-> FALSE, message |-> "period out of range", target_year |-> period.target_year]

(***************************************************************************)
(* Result cache                                                            *)
(***************************************************************************)
(* cache_key = f"{period_type.value}_{start.timestamp()}_{end.timestamp()}" *)
cache_key(period_type, start, end) == <<period_type, start, end>>

CacheKeys(cache) == {cache[i].key : i \in 1..Len(cache)}

CacheEntry(cache, key) == cache[CHOOSE i \in 1..Len(cache) : cache[i].key = key]

(* _get_cached that still serves an entry whose age equals the TTL *)
_get_cached_inclusive(cache, key, t) ==
  IF key \in CacheKeys(cache)
  THEN IF t - CacheEntry(cache, key).ts <= CACHE_TTL
       THEN [value |-> Some(CacheEntry(cache, key).value), cache |-> cache]
       ELSE [value |-> None, cache |-> SelectSeq(cache, LAMBDA e : e.key # key)]
  ELSE [value |-> None, cache |-> cache]

(* _get_cached with the TTL comparison reversed *)
_get_cached_reversed(cache, key, t) ==
  IF key \in CacheKeys(cache)
  THEN IF t - CacheEntry(cache, key).ts >= CACHE_TTL
       THEN [value |-> Some(CacheEntry(cache, key).value), cache |-> cache]
       ELSE [value |-> None, cache |-> SelectSeq(cache, LAMBDA e : e.key # key)]
  ELSE [value |-> None, cache |-> cache]

(* _get_cached: the value returned (None on a miss) and the cache it leaves *)
_get_cached(cache, key, t) ==
  IF key \in CacheKeys(cache)
  THEN IF t - CacheEntry(cache, key).ts < CACHE_TTL
       THEN [value |-> Some(CacheEntry(cache, key).value), cache |-> cache]
       ELSE [value |-> None, cache |-> SelectSeq(cache, LAMBDA e : e.key # key)]
  ELSE [value |-> None, cache |-> cache]

(* _set_cached that stores without looking for the key *)
_set_cached_appends(cache, key, value, current_time) ==
  LET purged == SelectSeq(cache, LAMBDA e : ~(current_time - e.ts >= CACHE_TTL))
      oldest == CHOOSE i \in 1..Len(purged) : (\A j \in 1..Len(purged) : purged[i].ts <= purged[j].ts) /\ (\A j \in 1..(i - 1) : purged[j].ts > purged[i].ts)
      room == IF Len(purged) >= MAX_CACHE_SIZE THEN SubSeq(purged, 1, oldest - 1) \o SubSeq(purged, oldest + 1, Len(purged)) ELSE purged
  IN Append(room, [key |-> key, value |-> value, ts |-> current_time])

(* _set_cached that evicts the newest entry when full *)
_set_cached_evicts_newest(cache, key, value, current_time) ==
  LET purged == SelectSeq(cache, LAMBDA e : ~(current_time - e.ts >= CACHE_TTL))
      room == IF Len(purged) >= MAX_CACHE_SIZE THEN SubSeq(purged, 1, Len(purged) - 1) ELSE purged
  IN IF key \in CacheKeys(room)
     THEN [i \in 1..Len(room) |-> IF room[i].key = key THEN [key |-> key, value |-> value, ts |-> current_time] ELSE room[i]]
     ELSE Append(room, [key |-> key, value |-> value, ts |-> current_time])

(* _set_cached: purge the expired, evict the oldest when full, store *)
_set_cached(cache, key, value, current_time) ==
  LET purged == SelectSeq(cache, LAMBDA e : ~(current_time - e.ts >= CACHE_TTL))
      oldest == CHOOSE i \in 1..Len(purged) : (\A j \in 1..Len(purged) : purged[i].ts <= purged[j].ts) /\ (\A j \in 1..(i - 1) : purged[j].ts > purged[i].ts)
      room == IF Len(purged) >= MAX_CACHE_SIZE THEN SubSeq(purged, 1, oldest - 1) \o SubSeq(purged, oldest + 1, Len(purged)) ELSE purged
  IN IF key \in CacheKeys(room)
     THEN [i \in 1..Len(room) |-> IF room[i].key = key THEN [key |-> key, value |-> value, ts |-> current_time] ELSE room[i]]
     ELSE Append(room, [key |-> key, value |-> value, ts |-> current_time])

(***************************************************************************)
(* Facade: what a call returns or raises                                   *)
(***************************************************************************)
Return(v) == [tag |-> "return", value |-> v]

Raise(e) == [tag |-> "raise", exc |-> e]

(* _check_initialized: raise RuntimeError("DateAIManager not initialized ...") *)
NotInitialized == Raise("RuntimeError")

(* an exception of the storage driver, raised by db_pool.acquire() or conn.fetch() *)
StorageError == Raise("StorageError")

(* {"error": "end date of the period must be later than the start date"} *)
InvalidRange == Return([error |-> "end date must be later than start date"])

(* {"error": "creator_id must be from 1 to 19"} *)
InvalidOwnerHandle == Return([error |-> "creator_id must be from 1 to 19"])

(* {"error": "bad period parameters"} *)
InvalidPeriodParams == Return([error |-> "bad period parameters"])

(* one way a call can end: its outcome, the cache it leaves, the queries it issued, its locals *)
Out(r, c, q, b, vs) == [ret |-> r, cache |-> c, queries |-> q, bounds |-> b, rows |-> vs]

(* the period a facade method resolves before it aggregates: boundaries, or why there are none *)
OutOfRangeDates(start, end) == [kind |-> "out_of_range", start |-> start, end |-> end]

Rejected == [kind |-> "invalid_range"]

Unresolved == [kind |-> "unresolved"]

resolve_daily(period, date) == IF year(date) # period.target_year THEN OutOfRangeDates(date, date) ELSE _calculate_day_bounds(date)

resolve_weekly(period, start_date) == IF year(start_date) # period.target_year THEN OutOfRangeDates(start_date, start_date) ELSE _calculate_week_bounds(start_date)

resolve_monthly(period, y, m) == IF y # period.target_year THEN OutOfRangeDates(datetime(y, m, 1, 0), datetime(y, m, 28, 0)) ELSE _calculate_month_bounds(y, m)

(* resolve_custom with the end left at midnight of the last day *)
resolve_custom_same_day(period, start_date, end_date) ==
  IF end_date < start_date THEN Rejected
  ELSE IF year(start_date) # period.target_year \/ year(end_date) # period.target_year THEN OutOfRangeDates(start_date, end_date)
  ELSE Bounds(replace_midnight(start_date), replace_midnight(end_date))

resolve_custom(period, start_date, end_date) ==
  IF end_date < start_date THEN Rejected
  ELSE IF year(start_date) # period.target_year \/ year(end_date) # period.target_year THEN OutOfRangeDates(start_date, end_date)
  ELSE Bounds(replace_midnight(start_date), replace_midnight(end_date) + timedelta(1))

resolve_creator(period, period_type, start_date, end_date) == IF period_type = "all_time" THEN Bounds(period.video_creation_start, period.stats_end) ELSE _calculate_period_bounds(start_date, period_type, end_date)

(* _calculate_stats_for_period that queries the storage whatever the data type *)
_calculate_stats_for_period_ungated(start, end, period_type) ==
  LET period == data_period[1]
      key == cache_key(period_type, start, end)
      cached == _get_cached(_stats_cache, key, now)
      data_type == _get_period_type(period, start, end)
      no_data == _create_no_data_response(period, start, end, period_type, data_type)
  IN IF cached.value # None THEN {Out(Return(cached.value[1]), cached.cache, 0, Bounds(start, end), <<>>)}
     ELSE IF ~db_up THEN {Out(StorageError, cached.cache, 1, Bounds(start, end), <<>>)}
     ELSE {LET result == IF vs = <<>> THEN no_data ELSE _aggregate_video_stats(period, vs, start, end, period_type, data_type)
                IN Out(Return(result), _set_cached(cached.cache, key, result, now), 1, Bounds(start, end), vs) : vs \in Orderings(_fetch_videos_in_period(videos, video_snapshots, period, start, end))}

(* _calculate_stats_for_period that catches the storage error and answers no data *)
_calculate_stats_for_period_swallow(start, end, period_type) ==
  LET period == data_period[1]
      key == cache_key(period_type, start, end)
      cached == _get_cached(_stats_cache, key, now)
      data_type == _get_period_type(period, start, end)
      no_data == _create_no_data_response(period, start, end, period_type, data_type)
  IN IF cached.value # None THEN {Out(Return(cached.value[1]), cached.cache, 0, Bounds(start, end), <<>>)}
     ELSE IF data_type = "none" THEN {Out(Return(no_data), _set_cached(cached.cache, key, no_data, now), 0, Bounds(start, end), <<>>)}
     ELSE IF ~db_up THEN {Out(Return(no_data), _set_cached(cached.cache, key, no_data, now), 1, Bounds(start, end), <<>>)}
     ELSE {LET result == IF vs = <<>> THEN no_data ELSE _aggregate_video_stats(period, vs, start, end, period_type, data_type)
                IN Out(Return(result), _set_cached(cached.cache, key, result, now), 1, Bounds(start, end), vs) : vs \in Orderings(_fetch_videos_in_period(videos, video_snapshots, period, start, end))}

(* _calculate_stats_for_period: every way it can end in the current state *)
_calculate_stats_for_period(start, end, period_type) ==
  LET period == data_period[1]
      key == cache_key(period_type, start, end)
      cached == _get_cached(_stats_cache, key, now)
      data_type == _get_period_type(period, start, end)
      no_data == _create_no_data_response(period, start, end, period_type, data_type)
  IN IF cached.value # None THEN {Out(Return(cached.value[1]), cached.cache, 0, Bounds(start, end), <<>>)}
     ELSE IF data_type = "none" THEN {Out(Return(no_data), _set_cached(cached.cache, key, no_data, now), 0, Bounds(start, end), <<>>)}
     ELSE IF ~db_up THEN {Out(StorageError, cached.cache, 1, Bounds(start, end), <<>>)}
     ELSE {LET result == IF vs = <<>> THEN no_data ELSE _aggregate_video_stats(period, vs, start, end, period_type, data_type)
                IN Out(Return(result), _set_cached(cached.cache, key, result, now), 1, Bounds(start, end), vs) : vs \in Orderings(_fetch_videos_in_period(videos, video_snapshots, period, start, end))}

(* a period method after _check_initialized passed and its period b is resolved *)
PeriodOutcomes(b, period_type) ==
  IF b.kind = "invalid_range" THEN {Out(InvalidRange, _stats_cache, 0, b, <<>>)}
  ELSE IF b.kind = "out_of_range" THEN {Out(Return(_create_out_of_range_response(data_period[1], b.start, b.end)), _stats_cache, 0, b, <<>>)}
  ELSE _calculate_stats_for_period(b.start, b.end, period_type)

(* what the call c ending as o does to the engine *)
Apply(c, o) ==
  /\ call' = c
  /\ ret' = o.ret
  /\ _stats_cache' = o.cache
  /\ queries' = o.queries
  /\ bounds' = o.bounds
  /\ rows' = o.rows
  /\ UNCHANGED <<videos, video_snapshots, db_up, db_pool, data_period, _initialized, now>>

(* the call ends as o, made outside any dialogue *)
Finish(c, o) == Apply(c, o) /\ UNCHANGED <<tasks, _init_lock, giga_client, app, fsm_state, fsm_data, update>>

Unready == {Out(NotInitialized, _stats_cache, 0, Unresolved, <<>>)}

(***************************************************************************)
(* Facade operations                                                       *)
(***************************************************************************)
(* get_custom_period_stats(start_date, end_date) as a set of outcomes *)
CustomOutcomes(start_date, end_date) == IF ~_initialized THEN Unready ELSE PeriodOutcomes(resolve_custom(data_period[1], start_date, end_date), "custom")

get_daily_stats(date) ==
  \E o \in (IF ~_initialized THEN Unready ELSE PeriodOutcomes(resolve_daily(data_period[1], date), "day")) :
    Finish([op |-> "get_daily_stats", args |-> <<date>>], o)

get_weekly_stats(start_date) ==
  \E o \in (IF ~_initialized THEN Unready ELSE PeriodOutcomes(resolve_weekly(data_period[1], start_date), "week")) :
    Finish([op |-> "get_weekly_stats", args |-> <<start_date>>], o)

get_monthly_stats(y, m) ==
  \E o \in (IF ~_initialized THEN Unready ELSE PeriodOutcomes(resolve_monthly(data_period[1], y, m), "month")) :
    Finish([op |-> "get_monthly_stats", args |-> <<y, m>>], o)

get_custom_period_stats(start_date, end_date) ==
  \E o \in CustomOutcomes(start_date, end_date) :
    Finish([op |-> "get_custom_period_stats", args |-> <<start_date, end_date>>], o)

(* get_creator_stats that stores its result in the cache under the key of the period *)
CreatorOutcomes_cached(creator_id, b, period_type) ==
  LET period == data_period[1]
  IN IF ~db_up THEN {Out(StorageError, _stats_cache, 1, b, <<>>)}
     ELSE {LET result == IF vs = <<>> THEN [human_id |-> creator_id, has_data |-> FALSE, message |-> "no data for the period"] ELSE _aggregate_creator_stats(period, creator_id, vs, b.start, b.end, period_type)
           IN Out(Return(result), _set_cached(_stats_cache, cache_key(period_type, b.start, b.end), result, now), 1, b, vs) : vs \in Orderings(_fetch_creator_videos_in_period(videos, video_snapshots, period, creator_id, b.start, b.end))}

(* get_creator_stats after its period is resolved: fetch and aggregate *)
CreatorOutcomes(creator_id, b, period_type) ==
  LET period == data_period[1]
  IN IF ~db_up THEN {Out(StorageError, _stats_cache, 1, b, <<>>)}
     ELSE {LET result == IF vs = <<>> THEN [human_id |-> creator_id, has_data |-> FALSE, message |-> "no data for the period"] ELSE _aggregate_creator_stats(period, creator_id, vs, b.start, b.end, period_type)
           IN Out(Return(result), _stats_cache, 1, b, vs) : vs \in Orderings(_fetch_creator_videos_in_period(videos, video_snapshots, period, creator_id, b.start, b.end))}

(* get_creator_stats without the check of creator_id *)
get_creator_stats_unchecked(creator_id, period_type, start_date, end_date) ==
  \E o \in (IF ~_initialized THEN Unready
            ELSE LET b == resolve_creator(data_period[1], period_type, start_date, end_date)
                 IN IF b.kind = "ValueError" THEN {Out(InvalidRange, _stats_cache, 0, b, <<>>)}
                    ELSE IF b.kind = "none" THEN {Out(InvalidPeriodParams, _stats_cache, 0, b, <<>>)}
                    ELSE CreatorOutcomes(creator_id, b, period_type)) :
    Finish([op |-> "get_creator_stats", args |-> <<creator_id, period_type, start_date, end_date>>], o)

get_creator_stats(creator_id, period_type, start_date, end_date) ==
  \E o \in (IF ~_initialized THEN Unready
            ELSE IF ~(MIN_CREATOR_ID <= creator_id /\ creator_id <= MAX_CREATOR_ID) THEN {Out(InvalidOwnerHandle, _stats_cache, 0, Unresolved, <<>>)}
            ELSE LET b == resolve_creator(data_period[1], period_type, start_date, end_date)
                 IN IF b.kind = "ValueError" THEN {Out(InvalidRange, _stats_cache, 0, b, <<>>)}
                    ELSE IF b.kind = "none" THEN {Out(InvalidPeriodParams, _stats_cache, 0, b, <<>>)}
                    ELSE CreatorOutcomes(creator_id, b, period_type)) :
    Finish([op |-> "get_creator_stats", args |-> <<creator_id, period_type, start_date, end_date>>], o)

(* SELECT DISTINCT creator_human_number ... ORDER BY creator_human_number *)
RECURSIVE SortedSeq(_)
SortedSeq(S) == IF S = {} THEN <<>> ELSE LET x == CHOOSE y \in S : \A z \in S : y <= z IN <<x>> \o SortedSeq(S \ {x})

(* the query of get_available_creator_ids bounded by the end of the creation window *)
AvailableCreators_creation_window(vids, period) == SortedSeq({vids[i].creator_human_number : i \in {j \in 1..Len(vids) : vids[j].creator_human_number >= MIN_CREATOR_ID /\ vids[j].creator_human_number <= MAX_CREATOR_ID /\ vids[j].video_created_at >= period.video_creation_start /\ vids[j].video_created_at <= period.video_creation_end}})

AvailableCreators(vids, period) == SortedSeq({vids[i].creator_human_number : i \in {j \in 1..Len(vids) : vids[j].creator_human_number >= MIN_CREATOR_ID /\ vids[j].creator_human_number <= MAX_CREATOR_ID /\ vids[j].video_created_at >= period.video_creation_start /\ vids[j].video_created_at <= period.stats_end}})

(* get_available_creator_ids after _check_initialized: the list, or [] when the query raised *)
AvailableOutcomes == {Out(Return([list |-> IF db_up THEN AvailableCreators(videos, data_period[1]) ELSE <<>>]), _stats_cache, 1, Unresolved, <<>>)}

get_available_creator_ids ==
  \E o \in (IF ~_initialized THEN Unready ELSE AvailableOutcomes) :
    Finish([op |-> "get_available_creator_ids", args |-> <<>>], o)

SystemInfo(creators) == [data_year |-> data_period[1].target_year, available_creator_ids |-> creators, video_creation |-> <<data_period[1].video_creation_start, data_period[1].video_creation_end>>, stats_collection |-> <<data_period[1].stats_start, data_period[1].stats_end>>, cache_size |-> Len(_stats_cache), cache_ttl |-> CACHE_TTL]

get_system_info ==
  \E o \in (IF ~_initialized THEN {Out(Return([error |-> "system not initialized"]), _stats_cache, 0, Unresolved, <<>>)}
            ELSE {Out(Return(SystemInfo(a.ret.value.list)), _stats_cache, 1, Unresolved, <<>>) : a \in AvailableOutcomes}) :
    Finish([op |-> "get_system_info", args |-> <<>>], o)

(* SELECT MAX(EXTRACT(YEAR FROM video_created_at)) FROM videos; int(result) if result else None *)
_determine_target_year(vids) == IF vids = <<>> THEN None ELSE LET y == MaxOf({year(vids[i].video_created_at) : i \in 1..Len(vids)}) IN IF y = 0 THEN None ELSE Some(y)

(* what initialize() does to the engine: create_pool succeeds when the storage is up; query_ok says whether the year query then succeeds *)
initialize_engine(query_ok) ==
  /\ call' = [op |-> "initialize", args |-> <<>>]
  /\ bounds' = Unresolved
  /\ rows' = <<>>
  /\ UNCHANGED <<videos, video_snapshots, db_up, _stats_cache, now>>
  /\ IF _initialized
     THEN ret' = Return([ok |-> TRUE]) /\ queries' = 0 /\ UNCHANGED <<db_pool, data_period, _initialized>>
     ELSE IF ~db_up
     THEN ret' = Return([ok |-> FALSE]) /\ queries' = 0 /\ UNCHANGED <<db_pool, data_period, _initialized>>
     ELSE IF ~query_ok \/ _determine_target_year(videos) = None
     THEN ret' = Return([ok |-> FALSE]) /\ queries' = 1 /\ db_pool' = "open" /\ UNCHANGED <<data_period, _initialized>>
     ELSE ret' = Return([ok |-> TRUE]) /\ queries' = 1 /\ db_pool' = "open" /\ data_period' = Some(DataPeriod(_determine_target_year(videos)[1])) /\ _initialized' = TRUE

(* initialize() called with no other coroutine in flight *)
initialize(query_ok) == initialize_engine(query_ok) /\ UNCHANGED <<tasks, _init_lock, giga_client, app, fsm_state, fsm_data, update>>

(* close() that leaves _initialized set *)
close_keeps_flag(close_ok) ==
  /\ call' = [op |-> "close", args |-> <<>>]
  /\ queries' = 0
  /\ bounds' = Unresolved
  /\ rows' = <<>>
  /\ UNCHANGED <<tasks, _init_lock, giga_client, app, fsm_state, fsm_data, update, videos, video_snapshots, db_up, data_period, now, _initialized>>
  /\ IF db_pool # "none" /\ ~close_ok
     THEN ret' = Raise("StorageError") /\ UNCHANGED <<db_pool, _stats_cache>>
     ELSE /\ ret' = Return([ok |-> TRUE])
          /\ db_pool' = IF db_pool # "none" THEN "closed" ELSE db_pool
          /\ _stats_cache' = <<>>

(* what close() does to the engine: close_ok says whether db_pool.close() returns rather than raises *)
close_engine(close_ok) ==
  /\ call' = [op |-> "close", args |-> <<>>]
  /\ queries' = 0
  /\ bounds' = Unresolved
  /\ rows' = <<>>
  /\ UNCHANGED <<videos, video_snapshots, db_up, data_period, now>>
  /\ IF db_pool # "none" /\ ~close_ok
     THEN ret' = Raise("StorageError") /\ UNCHANGED <<db_pool, _initialized, _stats_cache>>
     ELSE /\ ret' = Return([ok |-> TRUE])
          /\ db_pool' = IF db_pool # "none" THEN "closed" ELSE db_pool
          /\ _initialized' = FALSE
          /\ _stats_cache' = <<>>

close(close_ok) == close_engine(close_ok) /\ UNCHANGED <<tasks, _init_lock, giga_client, app, fsm_state, fsm_data, update>>

clear_cache ==
  /\ call' = [op |-> "clear_cache", args |-> <<>>]
  /\ ret' = Return([ok |-> TRUE])
  /\ queries' = 0
  /\ bounds' = Unresolved
  /\ rows' = <<>>
  /\ _stats_cache' = <<>>
  /\ UNCHANGED <<tasks, _init_lock, giga_client, app, fsm_state, fsm_data, update, videos, video_snapshots, db_up, db_pool, data_period, _initialized, now>>

(***************************************************************************)
(* Environment: the loader fills the tables, the clock advances            *)
(***************************************************************************)
MaxVideos == 2

MaxSnapshots == 2

MaxTicks == 2

ClockStep == CACHE_TTL \div 2

(* INSERT INTO videos ... and the numbering of creators *)
LoadVideo(creator_human_number, video_created_at) ==
  /\ Len(videos) < MaxVideos
  /\ videos' = Append(videos, [creator_human_number |-> creator_human_number, video_created_at |-> video_created_at])
  /\ UNCHANGED <<tasks, _init_lock, giga_client, app, fsm_state, fsm_data, update, video_snapshots, db_up, db_pool, data_period, _initialized, _stats_cache, now, call, ret, queries, bounds, rows>>

(* INSERT INTO video_snapshots ... *)
LoadSnapshot(video_id, created_at, views_count, likes_count) ==
  /\ Cardinality(video_snapshots) < MaxSnapshots
  /\ video_id \in 1..Len(videos)
  /\ [video_id |-> video_id, created_at |-> created_at, views_count |-> views_count, likes_count |-> likes_count] \notin video_snapshots
  /\ video_snapshots' = video_snapshots \cup {[video_id |-> video_id, created_at |-> created_at, views_count |-> views_count, likes_count |-> likes_count]}
  /\ UNCHANGED <<tasks, _init_lock, giga_client, app, fsm_state, fsm_data, update, videos, db_up, db_pool, data_period, _initialized, _stats_cache, now, call, ret, queries, bounds, rows>>

(* time.time() advances *)
Tick ==
  /\ now + ClockStep <= MaxTicks * ClockStep
  /\ now' = now + ClockStep
  /\ UNCHANGED <<tasks, _init_lock, giga_client, app, fsm_state, fsm_data, update, videos, video_snapshots, db_up, db_pool, data_period, _initialized, _stats_cache, call, ret, queries, bounds, rows>>

(* the storage backend goes down or comes back *)
StorageDown ==
  /\ db_up
  /\ db_up' = FALSE
  /\ UNCHANGED <<tasks, _init_lock, giga_client, app, fsm_state, fsm_data, update, videos, video_snapshots, db_pool, data_period, _initialized, _stats_cache, now, call, ret, queries, bounds, rows>>

StorageUp ==
  /\ ~db_up
  /\ db_up' = TRUE
  /\ UNCHANGED <<tasks, _init_lock, giga_client, app, fsm_state, fsm_data, update, videos, video_snapshots, db_pool, data_period, _initialized, _stats_cache, now, call, ret, queries, bounds, rows>>

(***************************************************************************)
(* Spec: the facade with its cache, lifecycle and failures, over a small   *)
(* store that the loader may change at any time.  Init is the engine after *)
(* DateAIManager.__init__ over an empty database.                          *)
(***************************************************************************)
(* TelegramBotApp.__init__: nothing created; pc is where setup() stands, last the method called last, *)
(* released what the last shutdown() tried to release, in order *)
TelegramBotApp == [bot |-> FALSE, dp |-> FALSE, db_manager |-> FALSE, ai_manager |-> FALSE, date_ai_manager |-> FALSE, is_initialized |-> FALSE, is_polling |-> FALSE, pc |-> "new", last |-> "__init__", released |-> <<>>]

(* AsyncGigaChatClient.__init__; request_lock is an asyncio.Lock: its flag and its queue of waiting tasks *)
AsyncGigaChatClient == [initialized |-> FALSE, last_request_time |-> 0, request_lock |-> [locked |-> FALSE, waiters |-> <<>>]]

(* the coroutines: none is running *)
MaxTasks == 2

TaskIds == 1..MaxTasks

NoTasks == [t \in TaskIds |-> [pc |-> "done"]]

Init ==
  /\ videos = <<>>
  /\ video_snapshots = {}
  /\ db_up = TRUE
  /\ db_pool = "none"
  /\ data_period = None
  /\ _initialized = FALSE
  /\ _stats_cache = <<>>
  /\ now = 0
  /\ call = [op |-> "__init__", args |-> <<>>]
  /\ ret = Return([ok |-> TRUE])
  /\ queries = 0
  /\ bounds = Unresolved
  /\ rows = <<>>
  /\ fsm_state = "none"
  /\ fsm_data = None
  /\ update = [handler |-> "none", text |-> None, answers |-> <<>>]
  /\ tasks = NoTasks
  /\ _init_lock = <<>>
  /\ giga_client = AsyncGigaChatClient
  /\ app = TelegramBotApp

Sep1 == datetime(TARGET_YEAR, 9, 1, 0)

Nov1 == datetime(TARGET_YEAR, 11, 1, 0)

Nov5 == datetime(TARGET_YEAR, 11, 5, 1)

DayInputs == {Nov5, datetime(TARGET_YEAR + 1, 1, 1, 0)}

MonthInputs == {<<TARGET_YEAR, 1>>}

CustomInputs == {<<Nov1, Nov5>>, <<Nov5, Nov1>>}

CreatorIds == {1, 20}

CreatorPeriods == {<<"all_time", None, None>>, <<"custom", Some(Nov5), Some(Nov1)>>, <<"custom", Some(Nov1), Some(Nov5)>>, <<"day", None, None>>}

Load ==
  \/ Len(videos) < 1 /\ LoadVideo(1, Sep1)
  \/ LoadSnapshot(1, Nov5, 100, 10)

Lifecycle ==
  \/ \E q \in BOOLEAN : initialize(q)
  \/ \E c \in BOOLEAN : close(c)
  \/ clear_cache

PeriodStats ==
  \/ \E d \in DayInputs : get_daily_stats(d)
  \/ get_weekly_stats(Nov5)
  \/ \E ym \in MonthInputs : get_monthly_stats(ym[1], ym[2])
  \/ \E se \in CustomInputs : get_custom_period_stats(se[1], se[2])

CreatorStats ==
  \/ \E h \in CreatorIds, p \in CreatorPeriods : get_creator_stats(h, p[1], p[2], p[3])
  \/ get_available_creator_ids
  \/ get_system_info

Storage == StorageDown \/ StorageUp

Next == Load \/ Tick \/ Storage \/ Lifecycle \/ PeriodStats \/ CreatorStats

Spec == Init /\ [][Next]_vars

(***************************************************************************)
(* SpecResolver: one call of each facade method on a freshly initialized   *)
(* engine, its dates drawn from the days at the edges of every month.      *)
(***************************************************************************)
DayEdge == 1

EdgeDays(y, m) == {d \in 1..DaysInMonth(y, m) : d <= DayEdge \/ d > DaysInMonth(y, m) - DayEdge}

ResolverDates == {datetime(TARGET_YEAR, ym[1], ym[2], t) : ym \in {x \in (1..12) \X (1..31) : x[2] \in EdgeDays(TARGET_YEAR, x[1])}, t \in 0..(TodPerDay - 1)} \cup {datetime(TARGET_YEAR - 1, 12, 31, t) : t \in 0..(TodPerDay - 1)} \cup {datetime(TARGET_YEAR + 1, 1, 1, t) : t \in 0..(TodPerDay - 1)}

InitResolver ==
  /\ videos = <<[creator_human_number |-> 1, video_created_at |-> Sep1]>>
  /\ video_snapshots = {}
  /\ db_up = TRUE
  /\ db_pool = "open"
  /\ data_period = Some(DataPeriod(TARGET_YEAR))
  /\ _initialized = TRUE
  /\ _stats_cache = <<>>
  /\ now = 0
  /\ call = [op |-> "initialize", args |-> <<>>]
  /\ ret = Return([ok |-> TRUE])
  /\ queries = 1
  /\ bounds = Unresolved
  /\ rows = <<>>
  /\ fsm_state = "none"
  /\ fsm_data = None
  /\ update = [handler |-> "none", text |-> None, answers |-> <<>>]
  /\ tasks = NoTasks
  /\ _init_lock = <<>>
  /\ giga_client = AsyncGigaChatClient
  /\ app = TelegramBotApp

Fresh == call.op = "initialize"

ResolveDay == Fresh /\ \E d \in ResolverDates : get_daily_stats(d)

ResolveWeek == Fresh /\ \E d \in ResolverDates : get_weekly_stats(d)

ResolveMonth == Fresh /\ \E y \in {TARGET_YEAR, TARGET_YEAR + 1}, m \in 1..12 : get_monthly_stats(y, m)

ResolveCustom == Fresh /\ \E s \in ResolverDates, e \in ResolverDates : get_custom_period_stats(s, e)

ResolveCreator ==
  \/ Fresh /\ \E pt \in PeriodType, s \in ResolverDates : get_creator_stats(1, pt, Some(s), None)
  \/ Fresh /\ \E s \in ResolverDates, e \in ResolverDates : get_creator_stats(1, "custom", Some(s), Some(e))
  \/ Fresh /\ \E pt \in PeriodType : get_creator_stats(1, pt, None, None)

NextResolver == ResolveDay \/ ResolveWeek \/ ResolveMonth \/ ResolveCustom \/ ResolveCreator

SpecResolver == InitResolver /\ [][NextResolver]_vars

(***************************************************************************)
(* SpecAgg: the loader fills the tables before the engine starts; then     *)
(* every call aggregates on an empty cache (the caller clears it).         *)
(***************************************************************************)
(* creator_human_number and video_created_at of the videos loaded; the last is created after the creation window *)
VideoInputsAgg == {<<1, Sep1>>, <<2, Sep1>>, <<20, Sep1>>, <<1, datetime(TARGET_YEAR, 10, 31, TodPerDay - 1)>>}

(* the videos that have snapshots *)
SnapVideosAgg == {1, 2}

SnapTimesAgg == {Nov1, Nov5}

CountersAgg == {<<100, 20>>, <<150, 10>>}

DayInputsAgg == {Sep1, Nov5}

MonthInputsAgg == {<<TARGET_YEAR, 1>>, <<TARGET_YEAR, 9>>, <<TARGET_YEAR, 11>>}

CustomInputsAgg == {<<Nov1, Nov5>>, <<datetime(TARGET_YEAR, 11, 2, 0), Nov5>>, <<datetime(TARGET_YEAR, 1, 1, 0), datetime(TARGET_YEAR, 1, 31, 0)>>, <<datetime(TARGET_YEAR, 8, 1, 0), datetime(TARGET_YEAR, 12, 31, 0)>>}

CreatorIdsAgg == {1, 2}

CreatorPeriodsAgg == {<<"all_time", None, None>>, <<"custom", Some(Nov1), Some(Nov5)>>, <<"month", Some(Sep1), None>>}

Offline == call.op = "__init__"

Idle == _initialized /\ _stats_cache = <<>>

LoadAgg ==
  \/ Offline /\ \E v \in VideoInputsAgg : LoadVideo(v[1], v[2])
  \/ Offline /\ \E id \in SnapVideosAgg, t \in SnapTimesAgg, c \in CountersAgg : LoadSnapshot(id, t, c[1], c[2])

StartAgg == Offline /\ initialize(TRUE)

ClearAgg == _stats_cache # <<>> /\ clear_cache

PeriodStatsAgg ==
  \/ Idle /\ \E d \in DayInputsAgg : get_daily_stats(d)
  \/ Idle /\ get_weekly_stats(Nov5)
  \/ Idle /\ \E ym \in MonthInputsAgg : get_monthly_stats(ym[1], ym[2])
  \/ Idle /\ \E se \in CustomInputsAgg : get_custom_period_stats(se[1], se[2])

CreatorStatsAgg == Idle /\ \E h \in CreatorIdsAgg, p \in CreatorPeriodsAgg : get_creator_stats(h, p[1], p[2], p[3])

NextAgg == LoadAgg \/ StartAgg \/ ClearAgg \/ PeriodStatsAgg \/ CreatorStatsAgg

SpecAgg == Init /\ [][NextAgg]_vars

(***************************************************************************)
(* Properties of the facade, checked under Spec                            *)
(***************************************************************************)
PeriodOps == {"get_daily_stats", "get_weekly_stats", "get_monthly_stats", "get_custom_period_stats"}

PeriodTypeOf(op) == IF op = "get_daily_stats" THEN "day" ELSE IF op = "get_weekly_stats" THEN "week" ELSE IF op = "get_monthly_stats" THEN "month" ELSE "custom"

(* a step of the engine, not of its environment: the loader, the clock and the storage stand still *)
EngineStep == now' = now /\ db_up' = db_up /\ videos' = videos /\ video_snapshots' = video_snapshots

(* the step is a call of one of the period methods, of get_creator_stats, of get_available_creator_ids *)
PeriodCall == EngineStep /\ call'.op \in PeriodOps

CreatorCall == EngineStep /\ call'.op = "get_creator_stats"

AvailableCall == EngineStep /\ call'.op = "get_available_creator_ids"

FacadeCall == EngineStep /\ call'.op \in PeriodOps \cup {"get_creator_stats", "get_available_creator_ids", "get_system_info"}

(* the key under which the period call c, resolved to b, looks up and stores its result *)
LastKey(c, b) == cache_key(PeriodTypeOf(c.op), b.start, b.end)

(* every entry stored under the key of the last call is younger than the TTL *)
LastEntryFresh == bounds.kind = "bounds" => \A i \in 1..Len(_stats_cache) : _stats_cache[i].key = LastKey(call, bounds) => now - _stats_cache[i].ts < CACHE_TTL

(* C2: a period call that repeats the call made just before it, while the     *)
(* result of that call is younger than the TTL, returns the identical result *)
(* and issues no storage query (whatever happened to the store meanwhile).   *)
C2_RepeatServedFromCache == [][(PeriodCall /\ call' = call /\ ret.tag = "return" /\ LastEntryFresh) => (ret' = ret /\ queries' = 0)]_vars

(* a computed result with data was returned later without a query: a cache hit *)
C2_Witness == call.op = "get_custom_period_stats" /\ ret.tag = "return" /\ bounds.kind = "bounds" /\ ret.value.has_data /\ queries = 0 /\ now > 0

InvalidHandleCall == CreatorCall /\ ~(1 <= call'.args[1] /\ call'.args[1] <= 19)

InvalidRangeCall ==
  \/ EngineStep /\ call'.op = "get_custom_period_stats" /\ call'.args[2] < call'.args[1]
  \/ CreatorCall /\ 1 <= call'.args[1] /\ call'.args[1] <= 19 /\ call'.args[2] = "custom" /\ call'.args[3] # None /\ call'.args[4] # None /\ call'.args[4][1] < call'.args[3][1]

(* C8: on an initialized engine a creator call with a handle outside 1..19   *)
(* returns the invalid-handle error and a Custom request with end < start    *)
(* returns the invalid-range error, both with no storage query and with the  *)
(* cache left as it was.                                                     *)
C8_CallerErrorsBeforeStorage == [][(_initialized /\ (InvalidHandleCall \/ InvalidRangeCall)) => (queries' = 0 /\ _stats_cache' = _stats_cache /\ (InvalidHandleCall => ret' = InvalidOwnerHandle) /\ (InvalidRangeCall => ret' = InvalidRange))]_vars

C8_Witness == call.op = "get_creator_stats" /\ call.args[1] = 20 /\ call.args[2] = "all_time" /\ ret = InvalidOwnerHandle /\ _initialized /\ Len(_stats_cache) > 0

IsNotInitializedOutcome(r) == (r.tag = "raise" /\ r.exc = "RuntimeError") \/ (r.tag = "return" /\ DOMAIN r.value = {"error"} /\ r.value.error = "system not initialized")

(* C9: while the engine is not initialized every facade operation ends in    *)
(* the not-initialized error, with no storage query and the cache untouched; *)
(* the engine is not initialized at construction, after an initialize() that *)
(* returned false and after a close() that returned, and stays so until an   *)
(* initialize() returns true.                                                *)
C9_NotInitialized ==
  /\ [][(~_initialized /\ FacadeCall) => (IsNotInitializedOutcome(ret') /\ queries' = 0 /\ _stats_cache' = _stats_cache)]_vars
  /\ [][(~_initialized /\ ~(call'.op = "initialize" /\ ret'.value.ok)) => ~_initialized']_vars
  /\ [](call.op = "__init__" => ~_initialized)
  /\ []((call.op = "initialize" /\ ~ret.value.ok) => ~_initialized)
  /\ []((call.op = "close" /\ ret.tag = "return") => ~_initialized)

C9_Witness == call.op = "get_custom_period_stats" /\ ret = NotInitialized /\ db_pool = "closed" /\ queries = 0

StorageCall == PeriodCall \/ CreatorCall \/ AvailableCall

(* C10 as claimed: with the storage down, every facade operation that        *)
(* reaches the storage raises the storage error after one query attempt and  *)
(* leaves the cache as it was.                                               *)
C10_Original == [][(_initialized /\ ~db_up /\ StorageCall /\ queries' > 0) => (ret' = StorageError /\ queries' = 1 /\ _stats_cache' = _stats_cache)]_vars

(* the cache without the expired entry, if any, under the key of the call that ends in c, b *)
WithoutExpired(cache, c, b) == SelectSeq(cache, LAMBDA e : ~(e.key = LastKey(c, b) /\ now - e.ts >= CACHE_TTL))

(* C10 amended: with the storage down, a period call or a creator call that  *)
(* reaches the storage raises the storage error after one query attempt and  *)
(* changes the cache at most by dropping the expired entry of the requested  *)
(* key; get_available_creator_ids instead returns the empty list after one   *)
(* query attempt, cache untouched.                                           *)
C10_StorageFailure ==
  [][(_initialized /\ ~db_up /\ StorageCall /\ queries' > 0) =>
       /\ queries' = 1
       /\ PeriodCall => (ret' = StorageError /\ _stats_cache' = WithoutExpired(_stats_cache, call', bounds'))
       /\ CreatorCall => (ret' = StorageError /\ _stats_cache' = _stats_cache)
       /\ AvailableCall => (ret' = Return([list |-> <<>>]) /\ _stats_cache' = _stats_cache)]_vars

C10_Witness == call.op = "get_daily_stats" /\ ret = StorageError /\ queries = 1 /\ Len(_stats_cache) > 0 /\ ~db_up

(***************************************************************************)
(* Properties of the period resolver and the classifier, checked under     *)
(* SpecResolver                                                            *)
(***************************************************************************)
EndBeforeStart(c) ==
  \/ c.op = "get_custom_period_stats" /\ c.args[2] < c.args[1]
  \/ c.op = "get_creator_stats" /\ c.args[2] = "custom" /\ c.args[3] # None /\ c.args[4] # None /\ c.args[4][1] < c.args[3][1]

(* C1: every period a resolver path accepts (day, week, month, custom,     *)
(* all_time; the facade methods and _calculate_period_bounds) has          *)
(* end > start strictly; a custom request with end < start is answered     *)
(* with the invalid-range error and resolves to no boundaries.             *)
C1_EndAfterStart ==
  /\ bounds.kind = "bounds" => bounds.start < bounds.end
  /\ EndBeforeStart(call) => (bounds.kind \in {"invalid_range", "ValueError"} /\ ret = InvalidRange)

C1_Witness == call.op = "get_custom_period_stats" /\ call.args[1] = call.args[2] /\ bounds.kind = "bounds" /\ bounds.end = bounds.start + timedelta(1) /\ ret.tag = "return"

IsNone(p, s, e) == e <= p.video_creation_start \/ s >= p.stats_end

IsCreationOnly(p, s, e) == s >= p.video_creation_start /\ e <= p.video_creation_end

IsCounterOnly(p, s, e) == s >= p.stats_start /\ e <= p.stats_end

Regimes(p, s, e) == (IF IsNone(p, s, e) THEN {"none"} ELSE {}) \cup (IF IsCreationOnly(p, s, e) THEN {"video_creation"} ELSE {}) \cup (IF IsCounterOnly(p, s, e) THEN {"stats_only"} ELSE {}) \cup (IF ~IsNone(p, s, e) /\ ~IsCreationOnly(p, s, e) /\ ~IsCounterOnly(p, s, e) THEN {"mixed"} ELSE {})

(* C6: for every resolved [start, end) the classifier returns exactly one  *)
(* regime, the only one whose condition the period meets, and a result     *)
(* classified none has has_data = false.                                   *)
C6_ClassifierTotal ==
  (call.op \in PeriodOps /\ bounds.kind = "bounds" /\ ret.tag = "return") =>
    /\ ret.value.data_type \in DataType
    /\ Regimes(data_period[1], bounds.start, bounds.end) = {ret.value.data_type}
    /\ ret.value.data_type = "none" => ~ret.value.has_data

C6_Witness == call.op = "get_custom_period_stats" /\ call.args = <<datetime(TARGET_YEAR, 1, 1, 0), datetime(TARGET_YEAR, 1, 31, 0)>> /\ ret.tag = "return" /\ ret.value.data_type = "none" /\ ~ret.value.has_data

(***************************************************************************)
(* Properties of the aggregation, checked under SpecAgg                    *)
(***************************************************************************)
Aggregated == call.op \in PeriodOps \cup {"get_creator_stats"} /\ ret.tag = "return" /\ bounds.kind = "bounds"

HasGains(r) == r.tag = "return" /\ "has_data" \in DOMAIN r.value /\ r.value.has_data

(* the entities the query of the call selects from *)
Selected == IF call.op = "get_creator_stats" THEN creator_video_creation(videos, data_period[1], call.args[1]) ELSE video_creation(videos, data_period[1])

RowsOf(id) == {i \in 1..Len(rows) : rows[i].id = id}

Earliest(S) == CHOOSE s \in S : \A t \in S : s.created_at <= t.created_at

Latest(S) == CHOOSE s \in S : \A t \in S : t.created_at <= s.created_at

(* C3: when the earliest counter-window snapshot of an entity is observed  *)
(* on the first day of a custom period with v1 views and its latest on the *)
(* last day with v2 >= v1 views, the gain reported for the entity is       *)
(* v2 - v1; snapshots (Nov 1, 100) and (Nov 5, 150) under                  *)
(* Custom(Nov 1, Nov 5) give views_gained = 50.                            *)
C3_GainIsDifference ==
  (call.op = "get_custom_period_stats" /\ ret.tag = "return" /\ bounds.kind = "bounds") =>
    \A id \in video_creation(videos, data_period[1]) :
      LET S == WindowSnapshots(video_snapshots, data_period[1], id)
      IN (/\ Cardinality(S) >= 2
          /\ Cardinality({s.created_at : s \in S}) = Cardinality(S)
          /\ Ordinal(Earliest(S).created_at) = Ordinal(bounds.start)
          /\ Ordinal(Latest(S).created_at) = Ordinal(bounds.end) - 1
          /\ Latest(S).views_count >= Earliest(S).views_count)
         => /\ \A i \in RowsOf(id) : rows[i].views_gained = Latest(S).views_count - Earliest(S).views_count
            /\ Len(videos) = 1 => (HasGains(ret) /\ ret.value.views_gained = Latest(S).views_count - Earliest(S).views_count)

Before(S, start) == {s \in S : s.created_at < start}

During(S, start, end) == {s \in S : start <= s.created_at /\ s.created_at < end}

(* every snapshot of the span [start, end) reports less than a snapshot observed before it *)
Decreasing(S, start, end) == During(S, start, end) # {} /\ \A d \in During(S, start, end) : \E b \in Before(S, start) : d.views_count < b.views_count

C5_NonNegative ==
  (Aggregated /\ HasGains(ret)) =>
    /\ ret.value.views_gained >= 0
    /\ ret.value.likes_gained >= 0
    /\ ret.value.engagement_rate >= 0
    /\ ret.value.views_gained = 0 => ret.value.engagement_rate = 0
    /\ call.op \in PeriodOps => \A i \in 1..Len(ret.value.top_creators) : ret.value.top_creators[i].views_gained >= 0 /\ ret.value.top_creators[i].likes_gained >= 0

C5_Witness == Aggregated /\ call.op = "get_creator_stats" /\ HasGains(ret) /\ ret.value.views_gained > 0 /\ ret.value.engagement_rate > 0 /\ \E s \in video_snapshots, t \in video_snapshots : s.video_id = t.video_id /\ s.created_at < t.created_at /\ t.likes_count < s.likes_count

NoSnapshots(id) == WindowSnapshots(video_snapshots, data_period[1], id) = {}

InCreationWindow(v) == v.video_created_at >= data_period[1].video_creation_start /\ v.video_created_at <= data_period[1].video_creation_end

CreatedInPeriod(v) == bounds.start <= v.video_created_at /\ v.video_created_at < bounds.end

ValidOwner(v) == 1 <= v.creator_human_number /\ v.creator_human_number <= 19

(* the entities of the claim: created inside the creation window and inside the period, no snapshot in the counter window *)
NewSilent == {id \in 1..Len(videos) : InCreationWindow(videos[id]) /\ CreatedInPeriod(videos[id]) /\ NoSnapshots(id)}

CountedNew(E) ==
  /\ \A id \in E : RowsOf(id) # {} /\ \A i \in RowsOf(id) : rows[i].is_new = 1 /\ rows[i].views_gained = 0 /\ rows[i].likes_gained = 0
  /\ E # {} => (HasGains(ret) /\ ret.value.new_videos >= Cardinality(E))
  /\ (E # {} /\ Len(videos) = 1) => (ret.value.new_videos = 1 /\ ret.value.views_gained = 0)

(* C7 as stated: an entity created inside the creation window and inside   *)
(* the requested period, with no snapshot in the counter window, is        *)
(* counted as new with zero gain in a has_data = true result.              *)
C7_Original == (call.op \in PeriodOps /\ ret.tag = "return" /\ bounds.kind = "bounds") => CountedNew(NewSilent)

(* C7 amended: an entity with an owner handle in 1..19, created inside the *)
(* creation window and inside the requested period, with no snapshot in    *)
(* the counter window, is counted as new with zero gain in a               *)
(* has_data = true result; Month(2023, 9) over one such entity created on  *)
(* 2023-09-01 gives new_videos = 1, views_gained = 0, has_data = true.     *)
C7_NewWithoutSnapshots == (call.op \in PeriodOps /\ ret.tag = "return" /\ bounds.kind = "bounds") => CountedNew({id \in NewSilent : ValidOwner(videos[id])})

C7_Witness == call.op = "get_monthly_stats" /\ call.args = <<TARGET_YEAR, 9>> /\ Len(videos) = 1 /\ videos[1].video_created_at = Sep1 /\ video_snapshots = {} /\ HasGains(ret) /\ ret.value.new_videos = 1 /\ ret.value.views_gained = 0

(* C11: a call whose query returns no row answers has_data = false; every  *)
(* has_data = true result is built from at least one row, each of them new *)
(* or with a positive gain, so its totals are never all zero.              *)
C11_NoZeroFilledSuccess ==
  (Aggregated /\ queries = 1) =>
    /\ rows = <<>> => (ret.value.has_data = FALSE)
    /\ HasGains(ret) =>
         /\ rows # <<>>
         /\ \A i \in 1..Len(rows) : rows[i].is_new = 1 \/ rows[i].views_gained > 0 \/ rows[i].likes_gained > 0
         /\ ret.value.new_videos > 0 \/ ret.value.views_gained > 0 \/ ret.value.likes_gained > 0

C11_Witness == Aggregated /\ call.op = "get_daily_stats" /\ queries = 1 /\ rows = <<>> /\ ~ret.value.has_data /\ \E id \in video_creation(videos, data_period[1]) : WindowSnapshots(video_snapshots, data_period[1], id) # {}

NonError(r) == r.tag = "return" /\ "error" \notin DOMAIN r.value

HasRegime(r) == "data_type" \in DOMAIN r.value /\ r.value.data_type \in DataType

FirstOfNextMonth(y, m) == IF m = 12 THEN datetime(y + 1, 1, 1, 0) ELSE datetime(y, m + 1, 1, 0)

(* C13: on every resolver path but all_time, whatever the time of day of   *)
(* the input, both boundaries lie at 00:00; a month resolves to the first  *)
(* of the month 00:00 up to the first of the next month 00:00, December    *)
(* rolling over to January of the next year.                               *)
C13_MidnightBoundaries ==
  (bounds.kind = "bounds" /\ ~(call.op = "get_creator_stats" /\ call.args[2] = "all_time")) =>
    /\ Tod(bounds.start) = 0
    /\ Tod(bounds.end) = 0
    /\ call.op = "get_monthly_stats" => (bounds.start = datetime(call.args[1], call.args[2], 1, 0) /\ bounds.end = FirstOfNextMonth(call.args[1], call.args[2]))
    /\ (call.op = "get_creator_stats" /\ call.args[2] = "month") => (bounds.start = datetime(year(call.args[3][1]), month(call.args[3][1]), 1, 0) /\ bounds.end = FirstOfNextMonth(year(call.args[3][1]), month(call.args[3][1])))

RECURSIVE SumField(_, _)
SumField(S, f) == IF S = {} THEN 0 ELSE LET x == CHOOSE y \in S : TRUE IN x[f] + SumField(S \ {x}, f)

(* the rows of the unfiltered aggregation of the period the call resolved *)
PeriodRows == _fetch_videos_in_period(videos, video_snapshots, data_period[1], bounds.start, bounds.end)

RowsOfOwner(h) == {r \in PeriodRows : r.human_id = h}

(* C14: for a creator_id h in 1..19, get_creator_stats aggregates exactly  *)
(* the rows of h in the unfiltered aggregation of the same resolved        *)
(* period: has_data, new_videos, views_gained and likes_gained equal the   *)
(* sums over those rows, and the per-creator entry of the unfiltered       *)
(* result.                                                                 *)
C14_OwnerFilter ==
  (call.op = "get_creator_stats" /\ ret.tag = "return" /\ bounds.kind = "bounds") =>
    LET mine == RowsOfOwner(call.args[1])
    IN /\ {rows[i] : i \in 1..Len(rows)} = mine
       /\ Len(rows) = Cardinality(mine)
       /\ ret.value.has_data = (mine # {})
       /\ mine # {} =>
            /\ ret.value.new_videos = SumField(mine, "is_new")
            /\ ret.value.views_gained = SumField(mine, "views_gained")
            /\ ret.value.likes_gained = SumField(mine, "likes_gained")
            /\ \A vs \in Orderings(PeriodRows) :
                 LET all == _aggregate_video_stats(data_period[1], vs, bounds.start, bounds.end, call.args[2], "mixed")
                 IN \E i \in 1..Len(all.top_creators) :
                      /\ all.top_creators[i].human_id = call.args[1]
                      /\ all.top_creators[i].new_videos = ret.value.new_videos
                      /\ all.top_creators[i].views_gained = ret.value.views_gained
                      /\ all.top_creators[i].likes_gained = ret.value.likes_gained

C14_Witness == call.op = "get_creator_stats" /\ ret.tag = "return" /\ bounds.kind = "bounds" /\ HasGains(ret) /\ ret.value.views_gained > 0 /\ Cardinality(PeriodRows) > Len(rows)

(***************************************************************************)
(* SpecRank: _aggregate_video_stats applied to the rows a query returned:  *)
(* up to MaxRows rows arrive one by one, row i belonging to creator i or,  *)
(* among the first SharedRows rows, to creator 1, and are then aggregated. *)
(***************************************************************************)
MaxRows == 7

SharedRows == 4

ViewsRank == {0, 100, 150}

(* row i of a result: new when it gained nothing, as the WHERE clause demands *)
RowRank(i, h, v) == [id |-> i, human_id |-> h, is_new |-> IF v = 0 THEN 1 ELSE 0, views_gained |-> v, likes_gained |-> v \div 10]

InitRank ==
  /\ videos = <<[creator_human_number |-> 1, video_created_at |-> Sep1]>>
  /\ video_snapshots = {}
  /\ db_up = TRUE
  /\ db_pool = "open"
  /\ data_period = Some(DataPeriod(TARGET_YEAR))
  /\ _initialized = TRUE
  /\ _stats_cache = <<>>
  /\ now = 0
  /\ call = [op |-> "_fetch_videos_in_period", args |-> <<>>]
  /\ ret = Return([ok |-> TRUE])
  /\ queries = 1
  /\ bounds = Bounds(datetime(TARGET_YEAR, 8, 1, 0), datetime(TARGET_YEAR, 12, 31, LastSecond))
  /\ rows = <<>>
  /\ fsm_state = "none"
  /\ fsm_data = None
  /\ update = [handler |-> "none", text |-> None, answers |-> <<>>]
  /\ tasks = NoTasks
  /\ _init_lock = <<>>
  /\ giga_client = AsyncGigaChatClient
  /\ app = TelegramBotApp

(* the next row of the query result arrives *)
FetchRowRank ==
  /\ call.op = "_fetch_videos_in_period"
  /\ Len(rows) < MaxRows
  /\ \E h \in {Len(rows) + 1} \cup (IF Len(rows) < SharedRows THEN {1} ELSE {}), v \in ViewsRank : rows' = Append(rows, RowRank(Len(rows) + 1, h, v))
  /\ UNCHANGED <<tasks, _init_lock, giga_client, app, fsm_state, fsm_data, update, videos, video_snapshots, db_up, db_pool, data_period, _initialized, _stats_cache, now, call, ret, queries, bounds>>

AggregateRank ==
  /\ call.op = "_fetch_videos_in_period"
  /\ rows # <<>>
  /\ call' = [op |-> "_aggregate_video_stats", args |-> <<>>]
  /\ ret' = Return(_aggregate_video_stats(data_period[1], rows, bounds.start, bounds.end, "custom", "mixed"))
  /\ UNCHANGED <<tasks, _init_lock, giga_client, app, fsm_state, fsm_data, update, videos, video_snapshots, db_up, db_pool, data_period, _initialized, _stats_cache, now, queries, bounds, rows>>

NextRank == FetchRowRank \/ AggregateRank

SpecRank == InitRank /\ [][NextRank]_vars

(***************************************************************************)
(* Properties of the rollup, checked under SpecRank                        *)
(***************************************************************************)
RolledUp == call.op = "_aggregate_video_stats"

Owners == {rows[i].human_id : i \in 1..Len(rows)}

RowsBy(h) == {rows[i] : i \in {j \in 1..Len(rows) : rows[j].human_id = h}}

FirstRow(h) == CHOOSE i \in 1..Len(rows) : rows[i].human_id = h /\ \A j \in 1..(i - 1) : rows[j].human_id # h

Board == ret.value.top_creators

Listed == {Board[i].human_id : i \in 1..Len(Board)}

(* at most 5 entries, one per owner, each with the sums of its owner's rows *)
BoardShape ==
  /\ Len(Board) = (IF Cardinality(Owners) < 5 THEN Cardinality(Owners) ELSE 5)
  /\ \A i \in 1..Len(Board) : \A j \in 1..Len(Board) : Board[i].human_id = Board[j].human_id => i = j
  /\ \A i \in 1..Len(Board) :
       /\ Board[i].human_id \in Owners
       /\ Board[i].views_gained = SumField(RowsBy(Board[i].human_id), "views_gained")
       /\ Board[i].likes_gained = SumField(RowsBy(Board[i].human_id), "likes_gained")
       /\ Board[i].new_videos = SumField(RowsBy(Board[i].human_id), "is_new")

(* the listed owners are the first of the owners in the order Precedes, in that order *)
BoardOrder(Precedes(_, _)) ==
  /\ \A i \in 1..Len(Board) : \A j \in (i + 1)..Len(Board) : Precedes(Board[i].human_id, Board[j].human_id)
  /\ \A i \in 1..Len(Board) : \A o \in Owners \ Listed : Precedes(Board[i].human_id, o)

BestViews(h) == MaxOf({r.views_gained : r \in RowsBy(h)})

BestRow(h) == CHOOSE i \in 1..Len(rows) : rows[i].human_id = h /\ rows[i].views_gained = BestViews(h) /\ \A j \in 1..(i - 1) : ~(rows[j].human_id = h /\ rows[j].views_gained = BestViews(h))

(* the order of first appearance after a stable descending sort of the rows *)
ByBestRow(a, b) == BestViews(a) > BestViews(b) \/ (BestViews(a) = BestViews(b) /\ BestRow(a) < BestRow(b))

(* the stable descending order of the owners' summed views *)
BySum(a, b) == SumField(RowsBy(a), "views_gained") > SumField(RowsBy(b), "views_gained") \/ (SumField(RowsBy(a), "views_gained") = SumField(RowsBy(b), "views_gained") /\ FirstRow(a) < FirstRow(b))

(* C15 as stated: the leaderboard lists the first 5 owners in the order    *)
(* in which they appear after the rows are stably sorted by views_gained   *)
(* descending, each with the sums of its rows; at most 5 entries, no owner *)
(* twice.                                                                  *)
C15_Original == RolledUp => (BoardShape /\ BoardOrder(ByBestRow))

(* C15 amended: the rows are grouped by owner in arrival order, summing    *)
(* each owner's gains and new videos; the owners are then stably sorted by *)
(* their summed views_gained descending (ties keep the order of first      *)
(* arrival) and the first 5 are listed; at most 5 entries, no owner twice. *)
C15_Leaderboard == RolledUp => (BoardShape /\ BoardOrder(BySum))

C15_Witness == RolledUp /\ Cardinality(Owners) = 6 /\ Len(Board) = 5 /\ Board[1].views_gained = 200 /\ Board[2].views_gained = 150 /\ Board[2].human_id < Board[3].human_id /\ Board[3].views_gained = 150

AllRows == {rows[i] : i \in 1..Len(rows)}

(* C16: in a has_data = true period result new_videos, views_gained and    *)
(* likes_gained are the sums of is_new, views_gained and likes_gained over *)
(* all the rows returned, and active_creators is the number of distinct    *)
(* owners among them.                                                      *)
C16_Totals ==
  RolledUp =>
    /\ ret.value.has_data
    /\ ret.value.new_videos = SumField(AllRows, "is_new")
    /\ ret.value.views_gained = SumField(AllRows, "views_gained")
    /\ ret.value.likes_gained = SumField(AllRows, "likes_gained")
    /\ ret.value.active_creators = Cardinality(Owners)

C16_Witness == RolledUp /\ Len(rows) = 7 /\ ret.value.active_creators = 6 /\ ret.value.new_videos = 2 /\ ret.value.views_gained = 600 /\ ret.value.likes_gained = 60

(***************************************************************************)
(* SpecHandles: videos of several creators, created before, inside and     *)
(* after the windows, are loaded before the engine starts; then the        *)
(* creators are listed and queried while the storage may fail.             *)
(***************************************************************************)
VideoTimesHandles == {datetime(TARGET_YEAR, 7, 31, TodPerDay - 1), Sep1, datetime(TARGET_YEAR, 10, 31, TodPerDay - 1), datetime(TARGET_YEAR, 12, 31, TodPerDay - 1)}

OwnersHandles == {1, 2, 20}

LoadHandles == Offline /\ \E o \in OwnersHandles, t \in VideoTimesHandles : LoadVideo(o, t)

AvailableHandles == _initialized /\ get_available_creator_ids

CreatorHandles == _initialized /\ \E h \in CreatorIdsAgg, p \in CreatorPeriodsAgg : get_creator_stats(h, p[1], p[2], p[3])

NextHandles == LoadHandles \/ StartAgg \/ Storage \/ AvailableHandles \/ CreatorHandles

SpecHandles == Init /\ [][NextHandles]_vars

(***************************************************************************)
(* Properties of the creator list, checked under SpecHandles               *)
(***************************************************************************)
(* the owners of a video created in [video_creation_start, stats_end] *)
OwnersInRange == {videos[id].creator_human_number : id \in {i \in 1..Len(videos) : videos[i].video_created_at >= data_period[1].video_creation_start /\ videos[i].video_created_at <= data_period[1].stats_end}}

Ascending(s) == \A i \in 1..Len(s) : \A j \in (i + 1)..Len(s) : s[i] < s[j]

ListsExactly(r, S) == {r.value.list[i] : i \in 1..Len(r.value.list)} = S /\ Ascending(r.value.list)

(* every video of the creator is created after the creation window *)
OnlyLateVideos(h) == \A id \in 1..Len(videos) : videos[id].creator_human_number = h => videos[id].video_created_at > data_period[1].video_creation_end

NoDataForLateOwner == (call.op = "get_creator_stats" /\ NonError(ret) /\ OnlyLateVideos(call.args[1])) => ~ret.value.has_data

(* C17 as stated: get_available_creator_ids returns exactly the owners of  *)
(* a video created in [video_creation_start, stats_end], each once, in     *)
(* ascending order; an owner whose videos are all created after the        *)
(* creation window gets has_data = false from get_creator_stats.           *)
C17_Original ==
  /\ [][(AvailableCall /\ _initialized /\ db_up) => ListsExactly(ret', OwnersInRange)]_vars
  /\ [](NoDataForLateOwner)

(* C17 amended: when its query succeeds, get_available_creator_ids returns *)
(* exactly the owner handles in 1..19 of a video created in                *)
(* [video_creation_start, stats_end], each once, in ascending order, and   *)
(* the empty list when the query fails; an owner whose videos are all      *)
(* created after the creation window gets has_data = false from            *)
(* get_creator_stats.                                                      *)
C17_AvailableHandles ==
  /\ [][(AvailableCall /\ _initialized /\ db_up) => ListsExactly(ret', OwnersInRange \cap (1..19))]_vars
  /\ [][(AvailableCall /\ _initialized /\ ~db_up) => ret'.value.list = <<>>]_vars
  /\ [](NoDataForLateOwner)

C17_Witness == call.op = "get_available_creator_ids" /\ NonError(ret) /\ ret.value.list = <<1>> /\ OnlyLateVideos(1) /\ \E id \in 1..Len(videos) : videos[id].creator_human_number = 20 /\ videos[id].video_created_at = Sep1

(***************************************************************************)
(* The custom-period dialogue of DateAIHandlers                            *)
(***************************************************************************)
(* message.text: None for a message without text, else "DD.MM.YYYY" as <<DD, MM, YYYY>> *)
Texts == {None} \cup {Some(<<d, m, y>>) : d \in {1, 31}, m \in {2, 11}, y \in {TARGET_YEAR - 1, TARGET_YEAR}}

(* datetime.strptime(date_str, '%d.%m.%Y'): the date at 00:00, or ValueError for a date that does not exist *)
strptime(date_str) ==
  IF date_str[2] \in 1..12 /\ date_str[1] \in 1..DaysInMonth(date_str[3], date_str[2])
  THEN Return(datetime(date_str[3], date_str[2], date_str[1], 0))
  ELSE Raise("ValueError")

_get_target_year == IF data_period # None THEN data_period[1].target_year ELSE TARGET_YEAR

Handled(handler, text, answers) == [handler |-> handler, text |-> text, answers |-> answers]

cmd_custom ==
  /\ fsm_state' = "waiting_custom_start"
  /\ update' = Handled("cmd_custom", None, <<"enter_start">>)
  /\ UNCHANGED <<tasks, _init_lock, giga_client, app, fsm_data, videos, video_snapshots, db_up, db_pool, data_period, _initialized, _stats_cache, now, call, ret, queries, bounds, rows>>

process_custom_start(text) ==
  /\ fsm_state = "waiting_custom_start"
  /\ UNCHANGED <<tasks, _init_lock, giga_client, app, videos, video_snapshots, db_up, db_pool, data_period, _initialized, _stats_cache, now, call, ret, queries, bounds, rows>>
  /\ IF text = None
     THEN update' = Handled("process_custom_start", text, <<"AttributeError">>) /\ UNCHANGED <<fsm_state, fsm_data>>
     ELSE IF strptime(text[1]).tag = "raise"
     THEN update' = Handled("process_custom_start", text, <<"bad_format">>) /\ UNCHANGED <<fsm_state, fsm_data>>
     ELSE IF year(strptime(text[1]).value) # _get_target_year
     THEN update' = Handled("process_custom_start", text, <<"wrong_year">>) /\ UNCHANGED <<fsm_state, fsm_data>>
     ELSE /\ fsm_data' = Some(strptime(text[1]).value)
          /\ fsm_state' = "waiting_custom_end"
          /\ update' = Handled("process_custom_start", text, <<"enter_end">>)

(* the answers of process_custom_end after get_custom_period_stats ended as r; ai_ok: analyze_with_ai returns *)
CustomEndAnswers(r, ai_ok) ==
  IF r.tag = "raise" THEN <<"loading", "error">>
  ELSE IF ~("has_data" \in DOMAIN r.value /\ r.value.has_data) THEN <<"loading", "no_data">>
  ELSE IF ai_ok THEN <<"loading", "analysing", "stats">>
  ELSE <<"loading", "analysing", "error">>

process_custom_end(text) ==
  /\ fsm_state = "waiting_custom_end"
  /\ IF text = None
     THEN /\ update' = Handled("process_custom_end", text, <<"AttributeError">>)
          /\ UNCHANGED <<tasks, _init_lock, giga_client, app, fsm_state, fsm_data, videos, video_snapshots, db_up, db_pool, data_period, _initialized, _stats_cache, now, call, ret, queries, bounds, rows>>
     ELSE IF strptime(text[1]).tag = "raise"
     THEN /\ update' = Handled("process_custom_end", text, <<"bad_format">>)
          /\ UNCHANGED <<tasks, _init_lock, giga_client, app, fsm_state, fsm_data, videos, video_snapshots, db_up, db_pool, data_period, _initialized, _stats_cache, now, call, ret, queries, bounds, rows>>
     ELSE /\ fsm_state' = "none"
          /\ fsm_data' = None
          /\ IF fsm_data = None
             THEN /\ update' = Handled("process_custom_end", text, <<"no_start_date">>)
                  /\ UNCHANGED <<tasks, _init_lock, giga_client, app, videos, video_snapshots, db_up, db_pool, data_period, _initialized, _stats_cache, now, call, ret, queries, bounds, rows>>
             ELSE IF year(strptime(text[1]).value) # _get_target_year
             THEN /\ update' = Handled("process_custom_end", text, <<"wrong_year">>)
                  /\ UNCHANGED <<tasks, _init_lock, giga_client, app, videos, video_snapshots, db_up, db_pool, data_period, _initialized, _stats_cache, now, call, ret, queries, bounds, rows>>
             ELSE IF strptime(text[1]).value < fsm_data[1]
             THEN /\ update' = Handled("process_custom_end", text, <<"end_before_start">>)
                  /\ UNCHANGED <<tasks, _init_lock, giga_client, app, videos, video_snapshots, db_up, db_pool, data_period, _initialized, _stats_cache, now, call, ret, queries, bounds, rows>>
             ELSE \E o \in CustomOutcomes(fsm_data[1], strptime(text[1]).value), ai_ok \in BOOLEAN :
                    /\ Apply([op |-> "get_custom_period_stats", args |-> <<fsm_data[1], strptime(text[1]).value>>], o)
                    /\ update' = Handled("process_custom_end", text, CustomEndAnswers(o.ret, ai_ok))
                    /\ UNCHANGED <<tasks, _init_lock, giga_client, app>>

(***************************************************************************)
(* SpecDialogue: a chat walks through the custom-period dialogue with an   *)
(* initialized engine over a one-video store, while the storage may fail.  *)
(***************************************************************************)
CustomStart == \E text \in Texts : process_custom_start(text)

CustomEnd == \E text \in Texts : process_custom_end(text)

NextDialogue == cmd_custom \/ CustomStart \/ CustomEnd \/ Storage

SpecDialogue == InitResolver /\ [][NextDialogue]_vars

(***************************************************************************)
(* Properties of the dialogue, checked under SpecDialogue                  *)
(***************************************************************************)
(* a message is handled by process_custom_end *)
CustomEndStep == fsm_state = "waiting_custom_end" /\ update'.handler = "process_custom_end" /\ db_up' = db_up

(* that message made the handler call get_custom_period_stats *)
CalledStats == update'.answers # <<>> /\ update'.answers[1] = "loading"

CallOnlyWhenValid == (CustomEndStep /\ CalledStats) => (fsm_data # None /\ update'.text # None /\ strptime(update'.text[1]).tag = "return" /\ year(strptime(update'.text[1]).value) = _get_target_year /\ strptime(update'.text[1]).value >= fsm_data[1] /\ call'.op = "get_custom_period_stats" /\ call'.args = <<fsm_data[1], strptime(update'.text[1]).value>>)

FormatError == update'.text # None /\ strptime(update'.text[1]).tag = "raise"

ClearedUnlessFormatError == CustomEndStep => IF FormatError THEN fsm_state' = "waiting_custom_end" /\ fsm_data' = fsm_data ELSE fsm_state' = "none" /\ fsm_data' = None

(* C18: process_custom_end calls get_custom_period_stats only when a start *)
(* date is stored, the end date is in the target year and end >= start;    *)
(* every outcome clears the FSM state and data, except a date-format       *)
(* error, which leaves the dialogue in waiting_custom_end with the stored  *)
(* start date unchanged.                                                   *)
C18_CustomEndDialogue == [][CallOnlyWhenValid /\ ClearedUnlessFormatError]_vars

(***************************************************************************)
(* Properties of the gate before the aggregation query, checked under Spec *)
(***************************************************************************)
(* a period method resolves its period and finds no fresh cache entry for it *)
MissStep == PeriodCall /\ _initialized /\ bounds'.kind = "bounds" /\ _get_cached(_stats_cache, LastKey(call', bounds'), now).value = None

(* the data type of the period that call resolves *)
DataTypeOfStep == _get_period_type(data_period[1], bounds'.start, bounds'.end)

(* the no-data answer comes with an empty set of rows, and an empty set of rows gives the no-data answer *)
NoDataFromNoRows == ret'.tag = "return" => (ret'.value.has_data <=> rows' # <<>>)

(* C19 as stated: on a cache miss every resolved period, one classified    *)
(* NONE included, issues the storage query, and the no-data answer is      *)
(* derived only from the query returning no rows.                          *)
C19_Original == [][MissStep => (queries' = 1 /\ NoDataFromNoRows)]_vars

(* C19 amended: on a cache miss a period classified NONE is answered with  *)
(* no data, without a storage query, and the answer is cached; a period of *)
(* any other data type issues the storage query, and its no-data answer is *)
(* derived only from the query returning no rows.                          *)
C19_GateOnNone ==
  [][MissStep => IF DataTypeOfStep = "none"
                 THEN queries' = 0 /\ rows' = <<>> /\ ret' = Return(_create_no_data_response(data_period[1], bounds'.start, bounds'.end, PeriodTypeOf(call'.op), "none")) /\ LastKey(call', bounds') \in CacheKeys(_stats_cache')
                 ELSE queries' = 1 /\ NoDataFromNoRows]_vars

C19_Witness == ~db_up /\ call.op = "get_monthly_stats" /\ bounds.kind = "bounds" /\ queries = 0 /\ ret.tag = "return" /\ ~ret.value.has_data /\ ret.value.data_type = "none" /\ Len(_stats_cache) = 1 /\ _stats_cache[1].ts = now /\ now > 0

(***************************************************************************)
(* Properties of the cache read, checked under Spec                        *)
(***************************************************************************)
(* a period method resolves its period and reads the cache under its key *)
ReadStep == PeriodCall /\ _initialized /\ bounds'.kind = "bounds"

(* the read finds an entry under its key whose age has reached the TTL *)
FindsExpired == LastKey(call', bounds') \in CacheKeys(_stats_cache) /\ now - CacheEntry(_stats_cache, LastKey(call', bounds')).ts >= CACHE_TTL

(* the call answers from the cache: no query, nothing stored *)
ServedFromCache == ret'.tag = "return" /\ queries' = 0 /\ _stats_cache' = _stats_cache

(* C20: a cache read never returns an entry whose age (now - ts) is >= TTL: *)
(* a result served from the cache is the value of an entry younger than    *)
(* the TTL; an expired entry is treated as a miss (the result is computed  *)
(* again) and the read removes it from the cache.                          *)
C20_NoExpiredRead ==
  /\ [][(ReadStep /\ ServedFromCache) => (LastKey(call', bounds') \in CacheKeys(_stats_cache) /\ now - CacheEntry(_stats_cache, LastKey(call', bounds')).ts < CACHE_TTL /\ ret'.value = CacheEntry(_stats_cache, LastKey(call', bounds')).value)]_vars
  /\ [][(ReadStep /\ FindsExpired) => (~ServedFromCache /\ (DataTypeOfStep # "none" => queries' = 1) /\ \A i \in 1..Len(_stats_cache') : _stats_cache'[i].key = LastKey(call', bounds') => _stats_cache'[i].ts = now)]_vars
  /\ [][(ReadStep /\ FindsExpired /\ ret'.tag = "raise") => _stats_cache' = SelectSeq(_stats_cache, LAMBDA e : e.key # LastKey(call', bounds'))]_vars

(* at age = TTL the result was computed again and stored afresh *)
C20_Witness == now = CACHE_TTL /\ call.op = "get_daily_stats" /\ bounds.kind = "bounds" /\ ret.tag = "return" /\ ret.value.has_data /\ queries = 1 /\ Len(_stats_cache) = 1 /\ _stats_cache[1].key = LastKey(call, bounds) /\ _stats_cache[1].ts = now

(***************************************************************************)
(* Properties of the cache write, checked under Spec                       *)
(***************************************************************************)
(* a period method misses the cache, computes its result and stores it *)
WriteStep == MissStep /\ ret'.tag = "return"

(* the entries of the cache that have not expired, in insertion order *)
Unexpired == SelectSeq(_stats_cache, LAMBDA e : now - e.ts < CACHE_TTL)

Stored == [key |-> LastKey(call', bounds'), value |-> ret'.value, ts |-> now]

WithoutIndex(s, i) == SubSeq(s, 1, i - 1) \o SubSeq(s, i + 1, Len(s))

(* C21: a cache write purges every expired entry, then, if the size is     *)
(* still at or over capacity, evicts exactly one entry, one with the oldest *)
(* insertion instant, then inserts; the cache never holds more entries     *)
(* than its capacity; a write of a new key into a full cache of unexpired  *)
(* entries evicts the first-inserted key and keeps all the later ones.     *)
C21_CacheWrite ==
  /\ [](Len(_stats_cache) <= MAX_CACHE_SIZE)
  /\ [][(WriteStep /\ Len(Unexpired) < MAX_CACHE_SIZE) => _stats_cache' = Append(Unexpired, Stored)]_vars
  /\ [][(WriteStep /\ Len(Unexpired) >= MAX_CACHE_SIZE) => \E i \in 1..Len(Unexpired) : (\A j \in 1..Len(Unexpired) : Unexpired[i].ts <= Unexpired[j].ts) /\ _stats_cache' = Append(WithoutIndex(Unexpired, i), Stored)]_vars
  /\ [][(WriteStep /\ Len(_stats_cache) = MAX_CACHE_SIZE /\ Unexpired = _stats_cache) => (_stats_cache[1].key \notin CacheKeys(_stats_cache') /\ \A i \in 2..Len(_stats_cache) : \E j \in 1..Len(_stats_cache') : _stats_cache'[j] = _stats_cache[i] /\ now - _stats_cache'[j].ts < CACHE_TTL)]_vars

(* the cache is full after a write: its newest entry is the result just stored, its oldest is older and unexpired *)
C21_Witness == Len(_stats_cache) = MAX_CACHE_SIZE /\ bounds.kind = "bounds" /\ _stats_cache[Len(_stats_cache)].key = LastKey(call, bounds) /\ _stats_cache[Len(_stats_cache)].ts = now /\ _stats_cache[1].ts > 0 /\ _stats_cache[1].ts < now /\ now - _stats_cache[1].ts < CACHE_TTL

(***************************************************************************)
(* Properties of get_creator_stats and the cache, checked under Spec       *)
(***************************************************************************)
(* the call resolved a period and went on to the storage *)
CreatorFetch == CreatorCall /\ _initialized /\ bounds'.kind = "bounds"

(* no entry of the cache holds the result of a creator call *)
NoCreatorEntry == \A i \in 1..Len(_stats_cache) : Len(_stats_cache[i].key) = 3 /\ _stats_cache[i].key[1] \in {"day", "week", "month", "custom"} /\ "human_id" \notin DOMAIN _stats_cache[i].value

(* C22 as stated: the result of get_creator_stats is kept in the cache, so *)
(* the same call repeated within the TTL is served from it without a       *)
(* storage query; no entry is shared with the unfiltered result of the     *)
(* same period.                                                            *)
C22_Original ==
  /\ [][(CreatorFetch /\ call' = call /\ ret.tag = "return" /\ "has_data" \in DOMAIN ret.value) => (queries' = 0 /\ ret' = ret)]_vars
  /\ [](NoCreatorEntry)

(* C22 amended: get_creator_stats neither reads nor writes the cache: every *)
(* call that resolves its period issues the storage query, also when it    *)
(* repeats the call before it or when the unfiltered result of the same    *)
(* period is cached; the keys of the cache are made of period type, start  *)
(* and end only, and no entry holds a creator's result.                    *)
C22_CreatorStatsUncached ==
  /\ [][CreatorCall => _stats_cache' = _stats_cache]_vars
  /\ [][CreatorFetch => (queries' = 1 /\ (ret'.tag = "return" => (ret'.value.human_id = call'.args[1] /\ ret'.value.has_data = (rows' # <<>>))))]_vars
  /\ [](NoCreatorEntry)

(* the creator's result for a period whose unfiltered result is in the cache *)
C22_Witness == call.op = "get_creator_stats" /\ call.args[2] = "custom" /\ bounds.kind = "bounds" /\ ret.tag = "return" /\ ret.value.has_data /\ queries = 1 /\ \E i \in 1..Len(_stats_cache) : _stats_cache[i].key = cache_key("custom", bounds.start, bounds.end) /\ now - _stats_cache[i].ts < CACHE_TTL /\ _stats_cache[i].value.has_data

(***************************************************************************)
(* SpecTasks: concurrent period requests on an initialized engine.  A task *)
(* runs without interruption up to its next await; the only await of       *)
(* _calculate_stats_for_period is the storage query of                     *)
(* _fetch_videos_in_period, so a request takes one step up to that await   *)
(* (cache read, data type, the NONE answer) and one step after it          *)
(* (aggregation, cache write).                                             *)
(***************************************************************************)
TaskRequests == {<<"get_daily_stats", <<Nov5>>, resolve_daily(data_period[1], Nov5), "day">>, <<"get_monthly_stats", <<TARGET_YEAR, 1>>, resolve_monthly(data_period[1], TARGET_YEAR, 1), "month">>, <<"get_custom_period_stats", <<Nov1, Nov5>>, resolve_custom(data_period[1], Nov1, Nov5), "custom">>}

Fetching(c, b, period_type, data_type) == [pc |-> "fetch", call |-> c, bounds |-> b, period_type |-> period_type, data_type |-> data_type]

(* the request of task t runs from its call to its first await, or to its return *)
BeginPeriod(t) ==
  /\ tasks[t].pc = "done"
  /\ _initialized
  /\ UNCHANGED <<_init_lock, giga_client, app, fsm_state, fsm_data, update>>
  /\ \E r \in TaskRequests :
       LET c == [op |-> r[1], args |-> r[2]]
           b == r[3]
           key == cache_key(r[4], b.start, b.end)
           cached == _get_cached(_stats_cache, key, now)
           data_type == _get_period_type(data_period[1], b.start, b.end)
           no_data == _create_no_data_response(data_period[1], b.start, b.end, r[4], data_type)
       IN IF cached.value # None
          THEN Apply(c, Out(Return(cached.value[1]), cached.cache, 0, b, <<>>)) /\ UNCHANGED tasks
          ELSE IF data_type = "none"
          THEN Apply(c, Out(Return(no_data), _set_cached(cached.cache, key, no_data, now), 0, b, <<>>)) /\ UNCHANGED tasks
          ELSE /\ tasks' = [tasks EXCEPT ![t] = Fetching(c, b, r[4], data_type)]
               /\ _stats_cache' = cached.cache
               /\ UNCHANGED <<videos, video_snapshots, db_up, db_pool, data_period, _initialized, now, call, ret, queries, bounds, rows>>

(* the storage query of task t answers or raises, and the request runs to its return *)
CompletePeriod(t) ==
  /\ tasks[t].pc = "fetch"
  /\ tasks' = [tasks EXCEPT ![t] = [pc |-> "done"]]
  /\ UNCHANGED <<_init_lock, giga_client, app, fsm_state, fsm_data, update>>
  /\ LET f == tasks[t]
         key == cache_key(f.period_type, f.bounds.start, f.bounds.end)
         no_data == _create_no_data_response(data_period[1], f.bounds.start, f.bounds.end, f.period_type, f.data_type)
     IN IF ~db_up
        THEN Apply(f.call, Out(StorageError, _stats_cache, 1, f.bounds, <<>>))
        ELSE \E vs \in Orderings(_fetch_videos_in_period(videos, video_snapshots, data_period[1], f.bounds.start, f.bounds.end)) :
               LET result == IF vs = <<>> THEN no_data ELSE _aggregate_video_stats(data_period[1], vs, f.bounds.start, f.bounds.end, f.period_type, f.data_type)
               IN Apply(f.call, Out(Return(result), _set_cached(_stats_cache, key, result, now), 1, f.bounds, vs))

BeginTasks == \E t \in TaskIds : BeginPeriod(t)

CompleteTasks == \E t \in TaskIds : CompletePeriod(t)

LoadTasks == LoadSnapshot(1, Nov5, 100, 10)

NextTasks == BeginTasks \/ CompleteTasks \/ Tick \/ Storage \/ LoadTasks \/ clear_cache

SpecTasks == InitResolver /\ [][NextTasks]_vars

(***************************************************************************)
(* Properties of the cache under concurrent requests, checked under        *)
(* SpecTasks                                                               *)
(***************************************************************************)
OneEntryPerKey == \A i \in 1..Len(_stats_cache) : \A j \in 1..Len(_stats_cache) : _stats_cache[i].key = _stats_cache[j].key => i = j

(* the value of every entry is a result for the period type and the boundaries of its key *)
ValueOfItsKey == \A i \in 1..Len(_stats_cache) : LET e == _stats_cache[i] IN e.value.period_type = e.key[1] /\ e.value.start_date = e.key[2] /\ e.value.end_date = e.key[3] /\ e.value.data_type = _get_period_type(data_period[1], e.key[2], e.key[3])

(* C23: under any interleaving of concurrent period requests, which        *)
(* suspend only at the storage query, the cache holds at most one entry    *)
(* per key and at most MAX_CACHE_SIZE entries, and the value of each entry *)
(* is a result computed for the period type and boundaries of its key.     *)
C23_CacheUnderTasks == OneEntryPerKey /\ Len(_stats_cache) <= MAX_CACHE_SIZE /\ ValueOfItsKey

(* task 2 still awaits the storage for a key under which task 1, which missed it too, has meanwhile stored its result *)
C23_Witness == tasks[2].pc = "fetch" /\ tasks[1].pc = "done" /\ call = tasks[2].call /\ queries = 1 /\ ret.tag = "return" /\ cache_key(tasks[2].period_type, tasks[2].bounds.start, tasks[2].bounds.end) \in CacheKeys(_stats_cache) /\ Len(_stats_cache) = MAX_CACHE_SIZE

(***************************************************************************)
(* Properties of the entities left out, checked under SpecAgg              *)
(***************************************************************************)
(* the entities whose gain in the period is 0 for views and for likes and which are not new in it *)
Idle0 == {id \in 1..Len(videos) : is_new(videos[id], bounds.start, bounds.end) = 0 /\ views_gained(WindowSnapshots(video_snapshots, data_period[1], id), bounds.start, bounds.end) = 0 /\ likes_gained(WindowSnapshots(video_snapshots, data_period[1], id), bounds.start, bounds.end) = 0}

(* the owners all of whose entities are such *)
IdleOwners == {h \in {videos[id].creator_human_number : id \in 1..Len(videos)} : \A id \in 1..Len(videos) : videos[id].creator_human_number = h => id \in Idle0}

RowIds == {rows[i].id : i \in 1..Len(rows)}

(* C24: an entity whose gain is 0 for views and for likes and which is not *)
(* new in the period is in no row of the query, so it adds to no total,    *)
(* not to total_videos_analyzed, not to active_creators, and an owner of   *)
(* such entities only is not on the leaderboard.                           *)
C24_IdleEntitiesDropped ==
  (Aggregated /\ queries = 1) =>
    /\ RowIds \cap Idle0 = {}
    /\ \A i \in 1..Len(rows) : rows[i].is_new = 1 \/ rows[i].views_gained > 0 \/ rows[i].likes_gained > 0
    /\ (call.op \in PeriodOps /\ ret.value.has_data) =>
         /\ ret.value.total_videos_analyzed = Cardinality(RowIds)
         /\ ret.value.total_videos_analyzed <= Len(videos) - Cardinality(Idle0)
         /\ ret.value.views_gained = SumField({r \in AllRows : r.id \notin Idle0}, "views_gained")
         /\ ret.value.likes_gained = SumField({r \in AllRows : r.id \notin Idle0}, "likes_gained")
         /\ ret.value.active_creators = Cardinality({videos[id].creator_human_number : id \in RowIds})
         /\ \A i \in 1..Len(ret.value.top_creators) : ret.value.top_creators[i].human_id \notin IdleOwners

(* a result with data that leaves out an entity of another owner, which has snapshots in the counter window but no gain *)
C24_Witness == Aggregated /\ queries = 1 /\ call.op \in PeriodOps /\ ret.value.has_data /\ \E id \in video_creation(videos, data_period[1]) : id \in Idle0 /\ WindowSnapshots(video_snapshots, data_period[1], id) # {} /\ id \notin RowIds /\ videos[id].creator_human_number \in IdleOwners

(***************************************************************************)
(* The application: TelegramBotApp.setup, run and shutdown                 *)
(***************************************************************************)
ShutdownOrder == <<"stop_polling", "date_ai_manager", "ai_manager", "db_manager", "bot_session">>

(* the condition under which shutdown() attempts a step *)
Has(a, step) ==
  IF step = "stop_polling" THEN a.is_polling /\ a.dp
  ELSE IF step = "date_ai_manager" THEN a.date_ai_manager
  ELSE IF step = "ai_manager" THEN a.ai_manager
  ELSE IF step = "db_manager" THEN a.db_manager
  ELSE a.bot

StepOk(step, fails) == IF step = "date_ai_manager" THEN ~(db_pool # "none" /\ step \in fails) ELSE step \notin fails

(* a shutdown() that gives up at the first step that raises *)
shutdown_log_stops_at_failure(a, fails) ==
  LET steps == SelectSeq(ShutdownOrder, LAMBDA n : Has(a, n))
      all == [i \in 1..Len(steps) |-> [step |-> steps[i], ok |-> StepOk(steps[i], fails)]]
      bad == {i \in 1..Len(all) : ~all[i].ok}
  IN IF bad = {} THEN all ELSE SubSeq(all, 1, CHOOSE i \in bad : \A j \in bad : i <= j)

(* the steps shutdown() attempts on the application a, in order, each with whether it returned; fails: the steps that raise *)
shutdown_log(a, fails) ==
  LET steps == SelectSeq(ShutdownOrder, LAMBDA n : Has(a, n))
  IN [i \in 1..Len(steps) |-> [step |-> steps[i], ok |-> StepOk(steps[i], fails)]]

(* shutdown() on the application a, called from method m *)
shutdown_from(a, m, fails) ==
  /\ app' = [a EXCEPT !.last = m, !.released = shutdown_log(a, fails)]
  /\ IF a.date_ai_manager /\ \E i \in 1..Len(shutdown_log(a, fails)) : shutdown_log(a, fails)[i].step = "date_ai_manager"
     THEN close_engine("date_ai_manager" \notin fails)
     ELSE UNCHANGED <<videos, video_snapshots, db_up, db_pool, data_period, _initialized, _stats_cache, now, call, ret, queries, bounds, rows>>
  /\ UNCHANGED <<tasks, _init_lock, giga_client, fsm_state, fsm_data, update>>

(* setup() up to the end of _initialize_managers; outcome: where it raises, if it does *)
setup_begin(outcome, query_ok, fails) ==
  /\ app.pc = "new"
  /\ IF outcome = "config"
     THEN shutdown_from([app EXCEPT !.pc = "failed"], "setup", fails)
     ELSE IF outcome = "db"
     THEN shutdown_from([app EXCEPT !.pc = "failed", !.bot = TRUE, !.dp = TRUE, !.db_manager = TRUE], "setup", fails)
     ELSE /\ app' = [app EXCEPT !.pc = "handlers", !.last = "setup", !.bot = TRUE, !.dp = TRUE, !.db_manager = TRUE, !.ai_manager = TRUE, !.date_ai_manager = TRUE]
          /\ initialize_engine(query_ok)
          /\ UNCHANGED <<tasks, _init_lock, giga_client, fsm_state, fsm_data, update>>

(* setup() from _initialize_handlers on; handlers_ok: it does not raise *)
setup_end(handlers_ok, fails) ==
  /\ app.pc = "handlers"
  /\ IF handlers_ok
     THEN /\ app' = [app EXCEPT !.pc = "ready", !.last = "setup", !.is_initialized = TRUE]
          /\ UNCHANGED <<tasks, _init_lock, giga_client, fsm_state, fsm_data, update, videos, video_snapshots, db_up, db_pool, data_period, _initialized, _stats_cache, now, call, ret, queries, bounds, rows>>
     ELSE shutdown_from([app EXCEPT !.pc = "failed"], "setup", fails)

(* run() up to await self.dp.start_polling(...) *)
run_begin ==
  /\ app.pc \in {"ready", "failed"}
  /\ ~app.is_polling
  /\ app' = [app EXCEPT !.last = "run", !.is_polling = app.is_initialized]
  /\ UNCHANGED <<tasks, _init_lock, giga_client, fsm_state, fsm_data, update, videos, video_snapshots, db_up, db_pool, data_period, _initialized, _stats_cache, now, call, ret, queries, bounds, rows>>

(* start_polling returns or raises: the finally clause of run() *)
run_end ==
  /\ app.is_polling
  /\ app' = [app EXCEPT !.last = "run", !.is_polling = FALSE]
  /\ UNCHANGED <<tasks, _init_lock, giga_client, fsm_state, fsm_data, update, videos, video_snapshots, db_up, db_pool, data_period, _initialized, _stats_cache, now, call, ret, queries, bounds, rows>>

shutdown(fails) ==
  /\ app.pc \in {"ready", "failed"}
  /\ shutdown_from(app, "shutdown", fails)

(***************************************************************************)
(* SpecApp: one application from construction: setup, run, shutdown, over  *)
(* a database that holds one video or none.                                *)
(***************************************************************************)
Failures == SUBSET {ShutdownOrder[i] : i \in 1..Len(ShutdownOrder)}

LoadApp == app.pc = "new" /\ Len(videos) < 1 /\ LoadVideo(1, Sep1)

Setup ==
  \/ \E outcome \in {"config", "db", "managers"}, q \in BOOLEAN, fails \in Failures : setup_begin(outcome, q, fails)
  \/ \E h \in BOOLEAN, fails \in Failures : setup_end(h, fails)

Run == run_begin \/ run_end

Shutdown == \E fails \in Failures : shutdown(fails)

NextApp == LoadApp \/ Setup \/ Run \/ Shutdown

SpecApp == Init /\ [][NextApp]_vars

(***************************************************************************)
(* Properties of the application, checked under SpecApp                    *)
(***************************************************************************)
StepsOf(log) == [i \in 1..Len(log) |-> log[i].step]

(* shutdown() has just run, on its own or from a failed setup() *)
AfterShutdown == app.last = "shutdown" \/ (app.last = "setup" /\ app.pc = "failed")

(* C25: shutdown attempts, in the order stop polling (only if polling),    *)
(* DateAI manager, AI manager, database manager, bot session, every step   *)
(* whose resource exists, whichever of them fail; a setup() that fails     *)
(* runs shutdown() and leaves is_initialized false; while is_initialized   *)
(* is false run() does not start polling.                                  *)
C25_ShutdownOrder ==
  /\ [](AfterShutdown => StepsOf(app.released) = SelectSeq(<<"stop_polling", "date_ai_manager", "ai_manager", "db_manager", "bot_session">>, LAMBDA n : Has(app, n)))
  /\ []((AfterShutdown /\ app.date_ai_manager) => (call.op = "close" /\ (ret.tag = "return" => ~_initialized)))
  /\ [](app.pc = "failed" => ~app.is_initialized)
  /\ [][(app.pc # "failed" /\ app'.pc = "failed") => (app'.last = "setup" /\ ~app'.is_initialized)]_vars
  /\ [][~app.is_initialized => ~app'.is_polling]_vars

(* shutdown() while polling: the DateAI manager failed to close and the four other steps were still made *)
C25_Witness == app.last = "shutdown" /\ app.is_polling /\ Len(app.released) = 5 /\ ~app.released[2].ok /\ app.released[3].ok /\ app.released[5].ok /\ ret.tag = "raise"

(***************************************************************************)
(* The AI client: AsyncGigaChatClient._make_request                        *)
(***************************************************************************)
DefaultMaxRetries == 3

(* asyncio.Lock.acquire by task t: taken at once when free with nobody waiting, else t joins the waiters *)
LockAcquire(lock, t) == IF ~lock.locked /\ lock.waiters = <<>> THEN [lock EXCEPT !.locked = TRUE] ELSE [lock EXCEPT !.waiters = Append(lock.waiters, t)]

LockRelease(lock) == [lock EXCEPT !.locked = FALSE]

(* the frame of _make_request in task t: depth counts the enclosing frames of the same task inside async with *)
Requesting(lock, t, max_retries, depth) == [pc |-> IF ~lock.locked /\ lock.waiters = <<>> THEN "throttle" ELSE "acquire", max_retries |-> max_retries, depth |-> depth]

Returned(result) == [pc |-> "done", result |-> result]

GigaUnchanged == UNCHANGED <<_init_lock, app, fsm_state, fsm_data, update, videos, video_snapshots, db_up, db_pool, data_period, _initialized, _stats_cache, now, call, ret, queries, bounds, rows>>

(* _make_request(prompt) is called in task t; init_ok: GigaChat(...) can be built *)
_make_request(t, init_ok) ==
  /\ tasks[t].pc = "done"
  /\ GigaUnchanged
  /\ IF ~giga_client.initialized /\ ~init_ok
     THEN tasks' = [tasks EXCEPT ![t] = Returned("not_initialized")] /\ UNCHANGED giga_client
     ELSE /\ giga_client' = [giga_client EXCEPT !.initialized = TRUE, !.request_lock = LockAcquire(giga_client.request_lock, t)]
          /\ tasks' = [tasks EXCEPT ![t] = Requesting(giga_client.request_lock, t, DefaultMaxRetries, 0)]

(* the lock is free and task t is first in line *)
lock_acquired(t) ==
  /\ tasks[t].pc = "acquire"
  /\ ~giga_client.request_lock.locked
  /\ giga_client.request_lock.waiters # <<>>
  /\ Head(giga_client.request_lock.waiters) = t
  /\ giga_client' = [giga_client EXCEPT !.request_lock = [locked |-> TRUE, waiters |-> Tail(giga_client.request_lock.waiters)]]
  /\ tasks' = [tasks EXCEPT ![t].pc = "throttle"]
  /\ GigaUnchanged

(* inside the lock: asyncio.sleep when the last request is less than a second old, then the call is handed to the executor *)
throttle(t) ==
  /\ tasks[t].pc = "throttle"
  /\ tasks' = [tasks EXCEPT ![t].pc = "chat"]
  /\ UNCHANGED giga_client
  /\ GigaUnchanged

(* every frame of task t leaves its async with: the innermost release succeeds, a second release raises RuntimeError *)
Unwind(t, result) == tasks' = [tasks EXCEPT ![t] = Returned(IF tasks[t].depth > 0 THEN "RuntimeError" ELSE result)]

(* self.giga.chat(chat) returns (chat_ok) or raises *)
chat(t, chat_ok) ==
  /\ tasks[t].pc = "chat"
  /\ GigaUnchanged
  /\ IF chat_ok
     THEN /\ giga_client' = [giga_client EXCEPT !.last_request_time = now, !.request_lock = LockRelease(giga_client.request_lock)]
          /\ Unwind(t, "answer")
     ELSE IF tasks[t].max_retries > 0
     THEN /\ giga_client' = [giga_client EXCEPT !.request_lock = LockAcquire(giga_client.request_lock, t)]
          /\ tasks' = [tasks EXCEPT ![t] = Requesting(giga_client.request_lock, t, tasks[t].max_retries - 1, tasks[t].depth + 1)]
     ELSE /\ giga_client' = [giga_client EXCEPT !.request_lock = LockRelease(giga_client.request_lock)]
          /\ Unwind(t, "connection_error")

(***************************************************************************)
(* SpecGiga: tasks call _make_request while the clock advances.            *)
(* FairSpecGiga: the event loop runs every task that can go on, and the    *)
(* executor ends every call.                                               *)
(***************************************************************************)
Request == \E t \in TaskIds, init_ok \in BOOLEAN : _make_request(t, init_ok)

Acquired == \E t \in TaskIds : lock_acquired(t)

Throttle == \E t \in TaskIds : throttle(t)

Chat == \E t \in TaskIds, chat_ok \in BOOLEAN : chat(t, chat_ok)

NextGiga == Request \/ Acquired \/ Throttle \/ Chat \/ Tick

SpecGiga == Init /\ [][NextGiga]_vars

FairSpecGiga == SpecGiga /\ \A t \in TaskIds : WF_vars(lock_acquired(t)) /\ WF_vars(throttle(t)) /\ WF_vars(\E chat_ok \in BOOLEAN : chat(t, chat_ok))

(***************************************************************************)
(* Properties of the AI client, checked under FairSpecGiga                 *)
(***************************************************************************)
(* C26: every _make_request ends: no task stays for ever before the lock, *)
(* in the call or between retries, a retry made inside the lock included. *)
C26_RequestTerminates == \A t \in TaskIds : (tasks[t].pc # "done") ~> (tasks[t].pc = "done")

(***************************************************************************)
(* initialize() as concurrent coroutines: a task gives up control only at  *)
(* its awaits (the lock, create_pool, the year query).                     *)
(***************************************************************************)
InitUnchanged == UNCHANGED <<app, fsm_state, fsm_data, update, videos, video_snapshots, db_up, _stats_cache, now, call, ret, queries, bounds, rows>>

(* the frame of initialize() that has returned: used counts its create_pool and query calls *)
Initialized(result, used) == [pc |-> "done", result |-> result, used |-> used]

(* after the lock is taken: if self._initialized: return True, else on to _connect_db *)
holding_init_lock(t, lock) ==
  /\ IF _initialized
     THEN tasks' = [tasks EXCEPT ![t] = Initialized(TRUE, 0)] /\ _init_lock' = SelectSeq(lock, LAMBDA w : w # t)
     ELSE tasks' = [tasks EXCEPT ![t] = [pc |-> "connect", used |-> 0]] /\ _init_lock' = lock
  /\ UNCHANGED <<db_pool, data_period, _initialized, giga_client>>
  /\ InitUnchanged

(* initialize() that does not take the lock *)
initialize_begin_unlocked(t) ==
  /\ tasks[t].pc = "done"
  /\ holding_init_lock(t, _init_lock)

(* initialize() is called in task t: async with self._init_lock *)
initialize_begin(t) ==
  /\ tasks[t].pc = "done"
  /\ IF _init_lock = <<>>
     THEN holding_init_lock(t, <<t>>)
     ELSE /\ tasks' = [tasks EXCEPT ![t] = [pc |-> "lock", used |-> 0]]
          /\ _init_lock' = Append(_init_lock, t)
          /\ UNCHANGED <<db_pool, data_period, _initialized, giga_client>>
          /\ InitUnchanged

(* the lock passes to task t, first in line *)
initialize_locked(t) ==
  /\ tasks[t].pc = "lock"
  /\ Head(_init_lock) = t
  /\ holding_init_lock(t, _init_lock)

(* await self._connect_db(): create_pool, an exception ends initialize() with False *)
initialize_connect(t) ==
  /\ tasks[t].pc = "connect"
  /\ InitUnchanged
  /\ UNCHANGED <<data_period, _initialized, giga_client>>
  /\ IF db_up
     THEN db_pool' = "open" /\ tasks' = [tasks EXCEPT ![t] = [pc |-> "year", used |-> 1]] /\ UNCHANGED _init_lock
     ELSE tasks' = [tasks EXCEPT ![t] = Initialized(FALSE, 1)] /\ _init_lock' = SelectSeq(_init_lock, LAMBDA w : w # t) /\ UNCHANGED db_pool

(* await self._determine_target_year() and the rest of initialize(), which has no further await that gives up control *)
initialize_year(t, query_ok) ==
  /\ tasks[t].pc = "year"
  /\ InitUnchanged
  /\ UNCHANGED db_pool
  /\ _init_lock' = SelectSeq(_init_lock, LAMBDA w : w # t)
  /\ IF ~db_up \/ ~query_ok \/ _determine_target_year(videos) = None
     THEN tasks' = [tasks EXCEPT ![t] = Initialized(FALSE, 2)] /\ UNCHANGED <<data_period, _initialized, giga_client>>
     ELSE /\ data_period' = Some(DataPeriod(_determine_target_year(videos)[1]))
          /\ giga_client' = [giga_client EXCEPT !.initialized = TRUE]
          /\ _initialized' = TRUE
          /\ tasks' = [tasks EXCEPT ![t] = Initialized(TRUE, 2)]

(***************************************************************************)
(* SpecInit: tasks call initialize() in any interleaving while the store   *)
(* is loaded, fails and comes back, and close() is called.                 *)
(***************************************************************************)
InitializeBegin == \E t \in TaskIds : initialize_begin(t)

InitializeLocked == \E t \in TaskIds : initialize_locked(t)

InitializeConnect == \E t \in TaskIds : initialize_connect(t)

InitializeYear == \E t \in TaskIds, query_ok \in BOOLEAN : initialize_year(t, query_ok)

LoadInit == Len(videos) < 1 /\ LoadVideo(1, Sep1)

CloseInit == close(TRUE)

NextInit == InitializeBegin \/ InitializeLocked \/ InitializeConnect \/ InitializeYear \/ LoadInit \/ Storage \/ CloseInit

SpecInit == Init /\ [][NextInit]_vars

(***************************************************************************)
(* Properties of initialize(), checked under SpecInit                      *)
(***************************************************************************)
InFlight(t) == tasks[t].pc \in {"connect", "year"}

InitializeReturns(t) == tasks[t].pc # "done" /\ tasks'[t].pc = "done"

(* C27: initialize() is serialized and idempotent: at most one call is    *)
(* ever between taking the lock and returning, and none while the engine  *)
(* is initialized; a call that returns while the engine is initialized    *)
(* returns true without a create_pool or a query; and no step that leaves *)
(* the engine initialized changes DataPeriod or the pool.                 *)
C27_InitializeOnce ==
  /\ [](\A t, u \in TaskIds : InFlight(t) /\ InFlight(u) => t = u)
  /\ [](\A t \in TaskIds : InFlight(t) => ~_initialized /\ _init_lock # <<>> /\ Head(_init_lock) = t)
  /\ [][\A t \in TaskIds : _initialized /\ InitializeReturns(t) => tasks'[t].result = TRUE /\ tasks'[t].used = 0 /\ UNCHANGED <<db_pool, data_period, _initialized>>]_vars
  /\ [][_initialized /\ _initialized' => UNCHANGED <<db_pool, data_period>>]_vars

(* two calls have returned true on an initialized engine, one after deriving DataPeriod, the other without touching the store *)
C27_Witness == _initialized /\ data_period # None /\ db_pool = "open" /\ \E t, u \in TaskIds : tasks[t] = Initialized(TRUE, 2) /\ tasks[u] = Initialized(TRUE, 0)

(***************************************************************************)
(* Properties of the entities created outside the creation window,         *)
(* checked under SpecAgg                                                   *)
(***************************************************************************)
Outside == {id \in 1..Len(videos) : ~InCreationWindow(videos[id])}

(* the entities the call is about: those of the owner asked for, or of the owners 1..19 *)
InScope(id) == IF call.op = "get_creator_stats" THEN videos[id].creator_human_number = call.args[1] ELSE videos[id].creator_human_number \in MIN_CREATOR_ID..MAX_CREATOR_ID

(* the gains in the period of the entities in scope that were created inside the window *)
InsideGains == {[id |-> id, views_gained |-> views_gained(WindowSnapshots(video_snapshots, data_period[1], id), bounds.start, bounds.end), likes_gained |-> likes_gained(WindowSnapshots(video_snapshots, data_period[1], id), bounds.start, bounds.end)] : id \in {i \in 1..Len(videos) : InScope(i) /\ i \notin Outside}}

GainsOutside(id) == id \in Outside /\ InScope(id) /\ views_gained(WindowSnapshots(video_snapshots, data_period[1], id), bounds.start, bounds.end) > 0

(* C28: an entity created outside the creation window is in no row of     *)
(* GetPeriodStats or GetEntityOwnerStats, and the gains reported are the  *)
(* gains of the entities created inside the window only, also when the    *)
(* outside entity has snapshots with a positive gain in the period.       *)
C28_OutsideContributesNothing ==
  (Aggregated /\ queries = 1) =>
    /\ RowIds \cap Outside = {}
    /\ HasGains(ret) =>
         /\ ret.value.views_gained = SumField(InsideGains, "views_gained")
         /\ ret.value.likes_gained = SumField(InsideGains, "likes_gained")

(* a period result and an owner result with data and gains, computed over a store where an entity in scope created after the window gained views in the period *)
C28_Witness == Aggregated /\ queries = 1 /\ HasGains(ret) /\ ret.value.views_gained > 0 /\ \E id \in 1..Len(videos) : GainsOutside(id) /\ id \notin RowIds

(***************************************************************************)
(* Properties of the periods at the ends of the windows, checked under     *)
(* SpecResolver                                                            *)
(***************************************************************************)
(* the resolved period contains the whole day of instant i *)
ContainsDayOf(i) == bounds.start <= replace_midnight(i) /\ replace_midnight(i) + timedelta(1) <= bounds.end

Classified == call.op \in PeriodOps /\ bounds.kind = "bounds" /\ ret.tag = "return"

MaxBefore(id, counter, t) == CoalesceMax({s[counter] : s \in Before(WindowSnapshots(video_snapshots, data_period[1], id), t)})

(* C30: for every entity and every resolved period, the snapshots observed *)
(* before start are among those observed before end, before_end is at      *)
(* least before_start for views and for likes, and the gain computed is    *)
(* the difference itself: the clamp to zero changes nothing.               *)
C30_MaximaAreNested ==
  Aggregated =>
    /\ bounds.start <= bounds.end
    /\ \A id \in 1..Len(videos) :
         LET S == WindowSnapshots(video_snapshots, data_period[1], id)
         IN /\ Before(S, bounds.start) \subseteq Before(S, bounds.end)
            /\ MaxBefore(id, "views_count", bounds.end) >= MaxBefore(id, "views_count", bounds.start)
            /\ MaxBefore(id, "likes_count", bounds.end) >= MaxBefore(id, "likes_count", bounds.start)
            /\ views_gained(S, bounds.start, bounds.end) = MaxBefore(id, "views_count", bounds.end) - MaxBefore(id, "views_count", bounds.start)
            /\ likes_gained(S, bounds.start, bounds.end) = MaxBefore(id, "likes_count", bounds.end) - MaxBefore(id, "likes_count", bounds.start)
            /\ \A i \in RowsOf(id) : rows[i].views_gained = MaxBefore(id, "views_count", bounds.end) - MaxBefore(id, "views_count", bounds.start)

(* an entity with a snapshot before the period and a higher one inside it: both maxima are set, and its row carries their difference; its likes fell, and their maxima are equal *)
C30_Witness == Aggregated /\ \E id \in Selected : RowsOf(id) # {} /\ 0 < MaxBefore(id, "views_count", bounds.start) /\ MaxBefore(id, "views_count", bounds.start) < MaxBefore(id, "views_count", bounds.end) /\ During(WindowSnapshots(video_snapshots, data_period[1], id), bounds.start, bounds.end) # {} /\ MaxBefore(id, "likes_count", bounds.start) = MaxBefore(id, "likes_count", bounds.end) /\ \E s \in During(WindowSnapshots(video_snapshots, data_period[1], id), bounds.start, bounds.end) : s.likes_count < MaxBefore(id, "likes_count", bounds.start)

====
